---- MODULE Spec2Model ----
(***************************************************************************)
(* The per-repository branch-synchronization orchestrator                  *)
(* (.github/scripts/orchestrator.py and its helpers) as a state machine.   *)
(*                                                                         *)
(* The hosting service is modelled by the state the orchestrator reads and *)
(* writes through the API: the upstream head, the fork's branch refs, the  *)
(* open issues.  Commits are numbers: 1..MaxUpstream is the upstream       *)
(* history (commit c has first parent c-1, commit 1 is a root), and        *)
(* MaxUpstream+c is a local commit made on top of upstream commit c.       *)
(* 0 stands for None (an absent ref, a cache miss, no parent).             *)
(*                                                                         *)
(* Spec is the orchestrator: main, process_repo and the cache file.        *)
(* RequestSpec is one call of an API client (github_api.py, _common.py)    *)
(* with its retry loop.                                                    *)
(***************************************************************************)
EXTENDS Integers, Sequences, FiniteSets, TLC

\* ------------------------------------------------------------------ bounds
MaxUpstream == 3
MaxTTL == 1
MaxRuns == 2

\* --------------------------------------------------------------- constants
None == 0
Managed == {"product", "staging", "snapshot", "feature"}
RefNames == {"mirror"} \cup Managed
TitleSync == "[automation] mirror sync failed"
TitleBootstrap == "[automation] branch bootstrap failed"
Titles == {TitleSync, TitleBootstrap}
MetaKinds == {"fork", "archived", "disabled", "notfork", "noparent"}

\* ------------------------------------------------------------ commit graph
\* first parent of a commit, None for a root commit
Parent(c) == IF c > MaxUpstream THEN c - MaxUpstream ELSE c - 1

RECURSIVE IsAncestor(_, _)
\* a is b or one of b's ancestors
IsAncestor(a, b) ==
  IF b = None THEN FALSE
  ELSE IF a = b THEN TRUE
  ELSE IsAncestor(a, Parent(b))

\* the local commit made on top of upstream commit c
LocalOn(c) == c + MaxUpstream

\* ------------------------------------------------------------ host answers
\* GET /compare/{base}...{head}: the status of head relative to base
\* ("behind" means base is ahead of head)
HostCompare(base, head) ==
  IF base = head THEN "identical"
  ELSE IF IsAncestor(base, head) THEN "ahead"
  ELSE IF IsAncestor(head, base) THEN "behind"
  ELSE "diverged"

\* the host accepts a non-forced ref update only as a fast-forward
HostAcceptsFf(cur, new) == cur # None /\ IsAncestor(cur, new)

\* ------------------------------------------------------------------- cache
\* An entry's timestamp ts is kept as its age, _now() - ts: a store writes
\* age 0 and the passing of time raises the age of every entry.  Ages above
\* the TTL in use are not told apart.  age -1 is an absent entry.
NoEntry == [age |-> -1, sha |-> None]
EmptyCache == [meta |-> [age |-> -1, value |-> "none"],
               refs |-> [r \in RefNames |-> NoEntry]]

_is_fresh(age, ttl) ==
  IF age < 0 \/ ttl <= 0 THEN FALSE ELSE age <= ttl

get_repo_meta(data, ttl) ==
  IF data.meta.age < 0 THEN "none"
  ELSE IF ~_is_fresh(data.meta.age, ttl) THEN "none"
  ELSE data.meta.value

set_repo_meta(data, value) ==
  [data EXCEPT !.meta = [age |-> 0, value |-> value]]

get_ref_sha(data, ref, ttl) ==
  IF data.refs[ref].age < 0 \/ ~_is_fresh(data.refs[ref].age, ttl) THEN None
  ELSE data.refs[ref].sha

set_ref_sha(data, ref, sha) ==
  [data EXCEPT !.refs[ref] = [age |-> 0, sha |-> sha]]

\* the cache document one time unit later
Older(age, ttl) == IF age < 0 \/ age > ttl THEN age ELSE age + 1
Aged(data, ttl) ==
  [meta |-> [data.meta EXCEPT !.age = Older(@, ttl)],
   refs |-> [r \in RefNames |-> [data.refs[r] EXCEPT !.age = Older(@, ttl)]]]

\* ------------------------------------------------------- orchestrator helpers
_compare_status(status) == IF status = "" THEN "unknown" ELSE status

\* a _head_sha that falls back to the base of the compare
_head_sha_of_base(base, head, fallback) ==
  IF HostCompare(base, head) \in {"ahead", "diverged"} THEN head ELSE base

\* the last commit of the compare's commit list (the commits of head that
\* base lacks), else the fallback
_head_sha(base, head, fallback) ==
  IF HostCompare(base, head) \in {"ahead", "diverged"} THEN head ELSE fallback

\* a _parent_sha that finds no parent
_parent_sha_missing(sha) == None

\* the first parent of a commit, None for a commit without parents
_parent_sha(sha) == Parent(sha)

\* a search that never finds the open issue
_find_open_issue_none(open, title) == FALSE

_find_open_issue(open, title) == open[title] > 0

\* an ensure_branch that requests the create whether or not the ref exists
ensure_creates_always(existing_sha) == TRUE

\* ensure_branch: the create is issued only for a ref that does not exist
ensure_creates(existing_sha) == existing_sha = None


\* ------------------------------------------------------------------- state
VARIABLES
  upstream,    \* head commit of the upstream repository's default branch
  refs,        \* the fork's branch refs on the host: name -> commit or None
  issues,      \* number of open issues of the fork per title
  hostMeta,    \* what GET /repos/{owner}/{name} reports about the repository
  cacheFile,   \* the cache document at REPO_META_CACHE_PATH
  cache,       \* main's in-memory cache dict
  ttl_meta,    \* REPO_CACHE_TTL_META
  pc,          \* position of main / process_repo
  loc,         \* process_repo's local variables
  result,      \* process_repo's result dict
  log,         \* history: ref mutations requested in this run, in order
  start,       \* history: the refs as they were when this run started
  runs,        \* history: how many times main has been started
  tmpFile,     \* the file at REPO_META_CACHE_PATH + ".tmp" (EmptyCache: none)
  interrupted, \* history: the refs at the start of the run an exception ended
               \* after it had created or updated a ref, while upstream and
               \* the fork are as that run left them; else NoRun
  settled      \* history: the last call of process_repo returned without a
               \* note, and upstream and the fork are as it left them

\* the state of one call of an API client (GitHubApi.request of github_api.py,
\* github_request of _common.py)
VARIABLES
  client,      \* which client is called
  cpc,         \* "idle", "running", "returned" or "raised"
  attempt,     \* the loop variable attempt
  resp,        \* what the last HTTP attempt met
  wait,        \* seconds slept after the last attempt (0: no sleep)
  slept,       \* history: number of sleeps of this call
  calls,       \* history: number of HTTP attempts (urlopen calls) of this call
  seen,        \* history: the classes of the responses met by this call
  error        \* the exception raised to the caller

\* the state of one call of _select_mirror_branch from process_repo
VARIABLES
  repo_details,  \* the default branch of the parent and of the fork
  heads,         \* the branch names that exist as refs in the fork
  spc,           \* position of _select_mirror_branch
  tried,         \* history: the refs requested from the host, in order
  mirror_branch, \* the branch _select_mirror_branch returned ("": none)
  sel_status     \* status of the GitHubApiError raised to process_repo (0: none)

\* the state of one call of load_branch_policy
VARIABLES
  policy,        \* the policy document: branches (the nameEnv of each entry)
                 \* and createOrder (a list of nameEnv keys)
  secrets,       \* the branch name the secret file of each nameEnv holds
  lpc,           \* position of load_branch_policy
  li,            \* index of the loop the call is in
  by_env,        \* by_env: nameEnv -> full ref of its BranchSpec
  order          \* order: the full refs of the BranchSpecs in createOrder

\* the state of one run of branch_ops.main
VARIABLES
  job_type,      \* input_data["job_type"]
  input_data,    \* repo_is_fork, repo_default_branch, repo_parent_default_branch
  bpolicy,       \* policy.order: the BranchSpecs (full_name, track, update)
  bheads,        \* the repository's branches on the host: name -> SHA or None
  upstream_sha,  \* what get_upstream_sha returned
  main_sha,      \* the SHA _get_main_sha has fetched (None: not fetched yet)
  bpc,           \* position of main
  bi,            \* index of the loop over policy.order main is in
  created,       \* history: the branches passed to create_branch, in order
  updated        \* history: the calls of update_branch (branch, sha, force)

\* the state of one iteration over GitHubApi.paginate
VARIABLES
  pages,         \* the host: the non-empty pages it serves (number of items,
                 \* response headers); every later page is empty
  page,          \* the loop variable page
  ppc,           \* position of paginate
  pj,            \* index in resp.data of the next item to yield
  requests,      \* history: the page and per_page parameters of each request
  yielded        \* history: the items yielded, in order

\* the state of one call of load_cache
VARIABLES
  disk,          \* the file at the cache path
  ldpc,          \* position of _load_json
  document,      \* what json.load parsed, then what load_cache returned
  raised         \* the exception that left load_cache ("": none)

\* the state of main processing two repositories of one organisation
VARIABLES
  shared_cache,  \* main's cache document: path of a repo's sub-dict -> its content
  procs,         \* per repository: its refs on the host and the position,
                 \* locals and result of its process_repo call
  alone          \* history: per repository, the same call made step for step
                 \* on a cache document that holds this repository only

client_vars == <<client, cpc, attempt, resp, wait, slept, calls, seen, error>>

select_vars == <<repo_details, heads, spc, tried, mirror_branch, sel_status>>

policy_vars == <<policy, secrets, lpc, li, by_env, order>>

paginate_vars == <<pages, page, ppc, pj, requests, yielded>>
load_vars == <<disk, ldpc, document, raised>>
pair_vars == <<shared_cache, procs, alone>>

branch_ops_vars ==
  <<job_type, input_data, bpolicy, bheads, upstream_sha, main_sha, bpc, bi,
    created, updated>>

orchestrator_vars ==
  <<upstream, refs, issues, hostMeta, cacheFile, cache, ttl_meta,
    pc, loc, result, log, start, runs, interrupted, settled, tmpFile>>

\* what the steps of one specification leave alone: the state of the others
outside_orchestrator ==
  <<client_vars, select_vars, policy_vars, branch_ops_vars, paginate_vars,
    load_vars, pair_vars>>
outside_request ==
  <<orchestrator_vars, select_vars, policy_vars, branch_ops_vars, paginate_vars,
    load_vars, pair_vars>>
outside_select ==
  <<upstream, refs, issues, hostMeta, cacheFile, cache, ttl_meta, loc, log,
    start, runs, interrupted, settled, tmpFile, client_vars, policy_vars,
    branch_ops_vars, paginate_vars,
    load_vars, pair_vars>>
outside_policy ==
  <<orchestrator_vars, client_vars, select_vars, branch_ops_vars, paginate_vars,
    load_vars, pair_vars>>
outside_branch_ops ==
  <<orchestrator_vars, client_vars, select_vars, policy_vars, paginate_vars,
    load_vars, pair_vars>>
outside_paginate ==
  <<orchestrator_vars, client_vars, select_vars, policy_vars, branch_ops_vars,
    load_vars, pair_vars>>

outside_load ==
  <<orchestrator_vars, client_vars, select_vars, policy_vars, branch_ops_vars,
    paginate_vars, pair_vars>>
outside_pair ==
  <<orchestrator_vars, client_vars, select_vars, policy_vars, branch_ops_vars,
    paginate_vars, load_vars>>

vars ==
  <<orchestrator_vars, client_vars, select_vars, policy_vars, branch_ops_vars,
    paginate_vars, load_vars, pair_vars>>

host == <<upstream, refs, issues, hostMeta>>

NoLoc == [mirror_sha |-> None, product_sha_before |-> None, staging_sha |-> None,
          status_pm |-> "", product_sha_after |-> None,
          downstream_target |-> None, status_ps |-> "", status_fs |-> "",
          issue_status |-> None]

\* no run is being rerun
NoRun == [r \in RefNames |-> -1]

NoResult == [notes |-> "", mirror_sync |-> "", issue |-> "none",
             branch_bootstrap |-> "", branch_presence |-> "",
             product_merge |-> "", product_changed |-> "",
             downstream_target |-> "", staging_promo |-> "",
             feature_promo |-> "", snapshot_promo |-> ""]

\* no response yet, no exception raised
NoResponse == [status |-> 0, retry_after |-> [kind |-> "absent", n |-> 0],
               remaining |-> "", reset |-> [kind |-> "absent", n |-> 0]]
NoError == [status |-> -1, message |-> ""]

\* main has not been started: a fork with only its mirror branch
OrchestratorAtRest ==
  /\ upstream = 1
  /\ refs = [r \in RefNames |-> IF r = "mirror" THEN 1 ELSE None]
  /\ issues = [t \in Titles |-> 0]
  /\ hostMeta = "fork"
  /\ cacheFile = EmptyCache /\ cache = EmptyCache /\ tmpFile = EmptyCache
  /\ ttl_meta = 0
  /\ pc = "idle" /\ loc = NoLoc /\ result = NoResult
  /\ log = <<>> /\ start = refs /\ runs = 0 /\ interrupted = NoRun
  /\ settled = FALSE

\* no API client call is under way
ClientAtRest ==
  /\ client = "GitHubApi" /\ cpc = "idle" /\ attempt = 0
  /\ resp = NoResponse /\ wait = 0 /\ slept = 0 /\ calls = 0
  /\ seen = {} /\ error = NoError

\* _select_mirror_branch has not been called
SelectAtRest ==
  /\ repo_details = [parent_default |-> "", default_branch |-> ""]
  /\ heads = {} /\ spc = "idle" /\ tried = <<>>
  /\ mirror_branch = "" /\ sel_status = 0

\* the nameEnv keys a policy document may use
Envs == {"GIT_BRANCH_MAIN", "GIT_BRANCH_STAGING", "GIT_BRANCH_FEATURE"}

\* no BranchSpec
NoSpec == <<>>

\* load_branch_policy has not been called
PolicyAtRest ==
  /\ policy = [branches |-> <<>>, createOrder |-> <<>>]
  /\ secrets = [e \in Envs |-> "main"]
  /\ lpc = "idle" /\ li = 0
  /\ by_env = [e \in Envs |-> NoSpec] /\ order = <<>>

\* the branch names of a branch_ops run, each the tuple of its path parts:
\* a plain default branch and the full refs of the two policy branches
MainRef == <<"automation", "main">>
SnapshotRef == <<"automation", "snapshot">>
BoNames == {<<"main">>, MainRef, SnapshotRef}

\* branch_ops.main has not been started
BranchOpsAtRest ==
  /\ job_type = "create"
  /\ input_data = [repo_is_fork |-> FALSE, repo_default_branch |-> <<"main">>,
                    repo_parent_default_branch |-> <<"main">>]
  /\ bpolicy = <<>>
  /\ bheads = [b \in BoNames |-> None]
  /\ upstream_sha = 1 /\ main_sha = None
  /\ bpc = "idle" /\ bi = 0
  /\ created = <<>> /\ updated = <<>>

\* paginate has not been called
PaginateAtRest ==
  /\ pages = <<>> /\ page = 0 /\ ppc = "idle" /\ pj = 0
  /\ requests = <<>> /\ yielded = <<>>

\* nothing parsed
NoDocument == [kind |-> "none", version |-> <<"absent", 0>>, orgs |-> "absent"]

\* no file at the path
NoFile == [path |-> "cache.json", exists |-> FALSE, size |-> 0,
           readable |-> FALSE, bytes |-> "none", doc |-> NoDocument]

\* load_cache has not been called
LoadAtRest ==
  /\ disk = NoFile /\ ldpc = "idle" /\ document = NoDocument /\ raised = ""

\* main is not processing two repositories
PairAtRest ==
  /\ shared_cache = <<>> /\ procs = <<>> /\ alone = <<>>

\* a fork of an upstream with one commit, its managed branches either not
\* yet created or all at that commit; the cache file does not exist
Init ==
  /\ upstream = 1
  /\ \E bootstrapped \in BOOLEAN :
       refs = [r \in RefNames |-> IF r = "mirror" \/ bootstrapped THEN 1 ELSE None]
  /\ issues = [t \in Titles |-> 0]
  /\ hostMeta \in MetaKinds
  /\ cacheFile = EmptyCache
  /\ cache = EmptyCache
  /\ ttl_meta \in 0..MaxTTL
  /\ pc = "idle"
  /\ loc = NoLoc
  /\ result = NoResult
  /\ log = <<>>
  /\ start = refs
  /\ runs = 0
  /\ interrupted = NoRun
  /\ settled = FALSE
  /\ tmpFile = EmptyCache
  /\ ClientAtRest
  /\ SelectAtRest
  /\ PolicyAtRest
  /\ BranchOpsAtRest
  /\ PaginateAtRest
  /\ LoadAtRest
  /\ PairAtRest

\* a ref mutation requested from the host: prior is the ref's SHA when the
\* request was made, ok whether the host carried it out
Mutation(op, ref, sha, ok) ==
  [op |-> op, ref |-> ref, sha |-> sha, prior |-> refs[ref], ok |-> ok]

\* ------------------------------------------------------------- environment
\* time passes: between two runs, and within a run while the product branch
\* is compared and updated (the API calls and backoff sleeps of step 3)
Tick ==
  /\ pc \in {"idle", "read_after"}
  /\ cache' = Aged(cache, ttl_meta)
  /\ cacheFile' = Aged(cacheFile, ttl_meta)
  /\ <<cache', cacheFile'>> # <<cache, cacheFile>>
  /\ UNCHANGED <<host, ttl_meta, pc, loc, result, log, start, runs, interrupted, settled, tmpFile, outside_orchestrator>>

\* upstream gets a new commit
UpstreamAdvance ==
  /\ pc = "idle"
  /\ upstream < MaxUpstream
  /\ upstream' = upstream + 1
  /\ interrupted' = NoRun
  /\ settled' = FALSE
  /\ UNCHANGED <<refs, issues, hostMeta, cacheFile, cache, ttl_meta,
                 pc, loc, result, log, start, runs, tmpFile, outside_orchestrator>>

\* somebody pushes a local commit to the product branch
LocalPush ==
  /\ pc = "idle"
  /\ refs["product"] \in 1..MaxUpstream
  /\ refs' = [refs EXCEPT !["product"] = LocalOn(refs["product"])]
  /\ interrupted' = NoRun
  /\ settled' = FALSE
  /\ UNCHANGED <<upstream, issues, hostMeta, cacheFile, cache, ttl_meta,
                 pc, loc, result, log, start, runs, tmpFile, outside_orchestrator>>

\* somebody closes an open issue
CloseIssue ==
  /\ pc = "idle"
  /\ \E t \in Titles :
       /\ issues[t] > 0
       /\ issues' = [issues EXCEPT ![t] = issues[t] - 1]
  /\ UNCHANGED <<upstream, refs, hostMeta, cacheFile, cache, ttl_meta,
                 pc, loc, result, log, start, runs, interrupted, settled, tmpFile, outside_orchestrator>>

\* ---------------------------------------------------------------- main
\* main: load the cache and call process_repo for the repository
MainStart ==
  /\ pc = "idle"
  /\ runs < MaxRuns
  /\ runs' = runs + 1
  /\ cache' = cacheFile
  /\ pc' = "meta"
  /\ loc' = NoLoc
  /\ result' = NoResult
  /\ log' = <<>>
  /\ start' = refs
  /\ UNCHANGED <<host, cacheFile, ttl_meta, interrupted, settled, tmpFile, outside_orchestrator>>

\* what json.dump has written of a document when the write stops early
Truncated(data) == [data EXCEPT !.refs = [r \in RefNames |-> NoEntry]]

\* the positions of main inside save_cache
SavePcs == {"returned", "save_open", "save_dump", "save_replace"}

\* a save_cache that opens the destination path itself for writing
SaveOpen_in_place ==
  /\ pc = "returned"
  /\ cacheFile' = EmptyCache
  /\ pc' = "save_open"
  /\ UNCHANGED <<host, cache, ttl_meta, loc, result, log, start, runs,
                 interrupted, settled, tmpFile, outside_orchestrator>>

\* main: process_repo returned; save_cache opens the temp path for writing
SaveOpen ==
  /\ pc = "returned"
  /\ tmpFile' = EmptyCache
  /\ pc' = "save_open"
  /\ UNCHANGED <<host, cacheFile, cache, ttl_meta, loc, result, log, start,
                 runs, interrupted, settled, outside_orchestrator>>

\* save_cache: json.dump writes the document to the temp file, piece by piece
SaveDump ==
  \/ /\ pc = "save_open"
     /\ tmpFile' = Truncated(cache)
     /\ pc' = "save_dump"
     /\ UNCHANGED <<host, cacheFile, cache, ttl_meta, loc, result, log, start,
                    runs, interrupted, settled, outside_orchestrator>>
  \/ /\ pc = "save_dump"
     /\ tmpFile' = cache
     /\ pc' = "save_replace"
     /\ UNCHANGED <<host, cacheFile, cache, ttl_meta, loc, result, log, start,
                    runs, interrupted, settled, outside_orchestrator>>

\* save_cache: os.replace moves the temp file over the destination; main
\* writes the summary and ends
MainFinish ==
  /\ pc = "save_replace"
  /\ cacheFile' = tmpFile
  /\ tmpFile' = EmptyCache
  /\ pc' = "idle"
  /\ loc' = NoLoc
  /\ result' = NoResult
  /\ log' = <<>>
  /\ start' = refs
  /\ interrupted' = NoRun
  /\ settled' = (result.notes = "")
  /\ UNCHANGED <<host, cache, ttl_meta, runs, outside_orchestrator>>

\* the process ends inside save_cache (the write raises OSError, the job is
\* stopped): what is on disk stays as it is
SaveCrash ==
  /\ pc \in SavePcs \ {"returned"}
  /\ pc' = "idle"
  /\ cache' = EmptyCache
  /\ loc' = NoLoc
  /\ result' = NoResult
  /\ log' = <<>>
  /\ start' = refs
  /\ interrupted' = NoRun
  /\ settled' = (result.notes = "")
  /\ UNCHANGED <<host, cacheFile, tmpFile, ttl_meta, runs, outside_orchestrator>>

\* an exception left process_repo: main has no handler, the process ends
\* with the cache unsaved; the workflow is run again later
MainAbort ==
  /\ pc = "crashed"
  /\ pc' = "idle"
  /\ cache' = EmptyCache
  /\ loc' = NoLoc
  /\ result' = NoResult
  /\ log' = <<>>
  /\ start' = refs
  /\ interrupted' = IF interrupted # NoRun THEN interrupted
                     ELSE IF \E i \in DOMAIN log : log[i].ok THEN start
                     ELSE NoRun
  /\ settled' = FALSE
  /\ UNCHANGED <<host, cacheFile, tmpFile, ttl_meta, runs, outside_orchestrator>>

\* process_repo returns its result with a note
Skip(note) ==
  /\ pc' = "returned"
  /\ result' = [result EXCEPT !.notes = note]

\* ------------------------------------------------ process_repo: resolve, gate
\* a gate that lets every repository through
Gate_open(details) == pc' = "select" /\ UNCHANGED result

Gate(details) ==
  IF details \in {"archived", "disabled"} THEN Skip("Skipped: archived or disabled")
  ELSE IF details \in {"notfork", "noparent"}
    THEN Skip("Skipped: not a fork or missing upstream")
  ELSE pc' = "select" /\ UNCHANGED result

FetchRepoMeta ==
  /\ pc = "meta"
  /\ \/ /\ get_repo_meta(cache, ttl_meta) # "none"
        /\ Gate(get_repo_meta(cache, ttl_meta))
        /\ UNCHANGED cache
     \/ /\ get_repo_meta(cache, ttl_meta) = "none"
        /\ cache' = set_repo_meta(cache, hostMeta)
        /\ Gate(hostMeta)
     \/ /\ get_repo_meta(cache, ttl_meta) = "none"
        /\ Skip("Skipped: failed to fetch repo metadata")
        /\ UNCHANGED cache
  /\ UNCHANGED <<host, cacheFile, ttl_meta, loc, log, start, runs, interrupted, settled, tmpFile, outside_orchestrator>>

\* _select_mirror_branch: the first candidate that resolves to a ref
SelectMirrorBranch ==
  /\ pc = "select"
  /\ \/ /\ refs["mirror"] # None
        /\ pc' = "sync"
        /\ UNCHANGED result
     \/ Skip("Skipped: missing mirror branch")
  /\ UNCHANGED <<host, cacheFile, cache, ttl_meta, loc, log, start, runs, interrupted, settled, tmpFile, outside_orchestrator>>

\* ------------------------------------------------ step 1: mirror sync
\* sync_mirror: POST merge-upstream; the host fast-forwards the mirror branch
\* to the upstream head, or answers with an error (a 409 conflict, ...)
SyncMirror ==
  /\ pc = "sync"
  /\ \/ /\ refs' = [refs EXCEPT !["mirror"] = upstream]
        /\ result' = [result EXCEPT !.mirror_sync = "ok"]
        /\ pc' = "read_mirror"
     \/ /\ result' = [result EXCEPT !.mirror_sync = "error"]
        /\ pc' = "issue_sync"
        /\ UNCHANGED refs
  /\ UNCHANGED <<upstream, issues, hostMeta, cacheFile, cache, ttl_meta,
                 loc, log, start, runs, interrupted, settled, tmpFile, outside_orchestrator>>

\* how the host calls of create_or_update_issue end: 200 when all succeed,
\* else the status of the GitHubApiError the first failing call raises
IssueCallStatuses == {200, 404, 410}

\* an except clause that raises every error again
issue_error_always_raised(status) == "raise"

\* the except clause of create_or_update_issue
issue_error_action(status) == IF status = 410 THEN "skipped" ELSE "raise"

\* create_or_update_issue: update the open issue with this title, or create it;
\* 410 (issues disabled) is swallowed, every other failure is raised again
ReportIssue(title, note) ==
  \E status \in IssueCallStatuses :
    /\ loc' = [loc EXCEPT !.issue_status = status]
    /\ IF status = 200
         THEN IF _find_open_issue(issues, title)
                THEN /\ result' = [result EXCEPT !.issue = "updated", !.notes = note]
                     /\ pc' = "returned"
                     /\ UNCHANGED issues
                ELSE /\ issues' = [issues EXCEPT ![title] = issues[title] + 1]
                     /\ result' = [result EXCEPT !.issue = "created", !.notes = note]
                     /\ pc' = "returned"
       ELSE IF issue_error_action(status) = "skipped"
         THEN /\ result' = [result EXCEPT !.issue = "skipped", !.notes = note]
              /\ pc' = "returned"
              /\ UNCHANGED issues
       ELSE /\ pc' = "crashed"
            /\ UNCHANGED <<issues, result>>

ReportSyncFailure ==
  /\ pc = "issue_sync"
  /\ ReportIssue(TitleSync, "Skipped: mirror sync failed")
  /\ UNCHANGED <<upstream, refs, hostMeta, cacheFile, cache, ttl_meta,
                 log, start, runs, interrupted, settled, tmpFile, outside_orchestrator>>

\* ------------------------------------------------ cache-or-API ref lookup
\* get_ref_sha, and on a miss _ref_sha (GET the ref, an absent ref is a 404)
\* followed by set_ref_sha: the outcomes the lookup of a ref can have
Lookup(ref) ==
  LET hit == get_ref_sha(cache, ref, ttl_meta) IN
  IF hit # None
    THEN {[ok |-> TRUE, sha |-> hit, cache |-> cache]}
    ELSE {[ok |-> TRUE, sha |-> refs[ref],
           cache |-> set_ref_sha(cache, ref, refs[ref])] : x \in
             IF refs[ref] # None THEN {1} ELSE {}}
         \cup {[ok |-> FALSE, sha |-> None, cache |-> cache]}

\* ------------------------------------------------ step 2: bootstrap
ReadMirrorSha ==
  /\ pc = "read_mirror"
  /\ \E o \in Lookup("mirror") :
       /\ cache' = o.cache
       /\ IF o.ok
            THEN /\ loc' = [loc EXCEPT !.mirror_sha = o.sha]
                 /\ pc' = "ensure_product"
                 /\ UNCHANGED result
            ELSE /\ result' = [result EXCEPT !.branch_bootstrap = "error"]
                 /\ pc' = "issue_mirror_ref"
                 /\ UNCHANGED loc
  /\ UNCHANGED <<host, cacheFile, ttl_meta, log, start, runs, interrupted, settled, tmpFile, outside_orchestrator>>

ReportMirrorRefFailure ==
  /\ pc = "issue_mirror_ref"
  /\ ReportIssue(TitleBootstrap, "Skipped: failed to read mirror ref")
  /\ UNCHANGED <<upstream, refs, hostMeta, cacheFile, cache, ttl_meta,
                 log, start, runs, interrupted, settled, tmpFile, outside_orchestrator>>

\* ensure_branch(ref, base_sha) inside the bootstrap try block; done is
\* what branch_bootstrap reads once this call has returned
EnsureBranch(ref, base_sha, okpc, done) ==
  \/ /\ ~ensure_creates(refs[ref])
     /\ pc' = okpc
     /\ result' = [result EXCEPT !.branch_bootstrap = done]
     /\ UNCHANGED <<refs, log>>
  \/ /\ ensure_creates(refs[ref])
     /\ refs[ref] = None
     /\ refs' = [refs EXCEPT ![ref] = base_sha]
     /\ log' = Append(log, Mutation("create", ref, base_sha, TRUE))
     /\ pc' = okpc
     /\ result' = [result EXCEPT !.branch_bootstrap = done]
  \/ /\ ensure_creates(refs[ref])
     /\ log' = Append(log, Mutation("create", ref, base_sha, FALSE))
     /\ result' = [result EXCEPT !.branch_bootstrap = "error"]
     /\ pc' = "issue_bootstrap"
     /\ UNCHANGED refs
  \/ /\ result' = [result EXCEPT !.branch_bootstrap = "error"]
     /\ pc' = "issue_bootstrap"
     /\ UNCHANGED <<refs, log>>

\* the cache-or-API read of a ref inside the bootstrap try block
BootstrapRead(ref, field, okpc) ==
  \E o \in Lookup(ref) :
    /\ cache' = o.cache
    /\ IF o.ok
         THEN /\ loc' = [loc EXCEPT ![field] = o.sha]
              /\ pc' = okpc
              /\ UNCHANGED result
         ELSE /\ result' = [result EXCEPT !.branch_bootstrap = "error"]
              /\ pc' = "issue_bootstrap"
              /\ UNCHANGED loc

EnsureProduct ==
  /\ pc = "ensure_product"
  /\ EnsureBranch("product", loc.mirror_sha, "read_product", "")
  /\ UNCHANGED <<upstream, issues, hostMeta, cacheFile, cache, ttl_meta,
                 loc, start, runs, interrupted, settled, tmpFile, outside_orchestrator>>

ReadProductBefore ==
  /\ pc = "read_product"
  /\ BootstrapRead("product", "product_sha_before", "ensure_staging")
  /\ UNCHANGED <<host, cacheFile, ttl_meta, log, start, runs, interrupted, settled, tmpFile, outside_orchestrator>>

EnsureStaging ==
  /\ pc = "ensure_staging"
  /\ EnsureBranch("staging", loc.product_sha_before, "read_staging", "")
  /\ UNCHANGED <<upstream, issues, hostMeta, cacheFile, cache, ttl_meta,
                 loc, start, runs, interrupted, settled, tmpFile, outside_orchestrator>>

ReadStaging ==
  /\ pc = "read_staging"
  /\ BootstrapRead("staging", "staging_sha", "ensure_snapshot")
  /\ UNCHANGED <<host, cacheFile, ttl_meta, log, start, runs, interrupted, settled, tmpFile, outside_orchestrator>>

EnsureSnapshot ==
  /\ pc = "ensure_snapshot"
  /\ EnsureBranch("snapshot", loc.staging_sha, "ensure_feature", "")
  /\ UNCHANGED <<upstream, issues, hostMeta, cacheFile, cache, ttl_meta,
                 loc, start, runs, interrupted, settled, tmpFile, outside_orchestrator>>

EnsureFeature ==
  /\ pc = "ensure_feature"
  /\ EnsureBranch("feature", loc.product_sha_before, "presence", "ok")
  /\ UNCHANGED <<upstream, issues, hostMeta, cacheFile, cache, ttl_meta,
                 loc, start, runs, interrupted, settled, tmpFile, outside_orchestrator>>

ReportBootstrapFailure ==
  /\ pc = "issue_bootstrap"
  /\ ReportIssue(TitleBootstrap, "Skipped: branch bootstrap failed")
  /\ UNCHANGED <<upstream, refs, hostMeta, cacheFile, cache, ttl_meta,
                 log, start, runs, interrupted, settled, tmpFile, outside_orchestrator>>

\* ------------------------------------------------ presence summary
\* an audit that records a 404 as an error
Presence_missing_as_error(ref, failing) ==
  IF get_ref_sha(cache, ref, ttl_meta) # None THEN "present"
  ELSE IF ref \in failing THEN "error (500)"
  ELSE IF refs[ref] = None THEN "error (404)"
  ELSE "present"

\* the label the audit records for one managed branch; failing names the
\* lookups whose API call fails with a status other than 404 (here 500)
Presence(ref, failing) ==
  IF get_ref_sha(cache, ref, ttl_meta) # None THEN "present"
  ELSE IF ref \in failing THEN "error (500)"
  ELSE IF refs[ref] = None THEN "missing"
  ELSE "present"

PresenceAudit ==
  /\ pc = "presence"
  /\ \E failing \in {{}} \cup {{r} : r \in Managed} :
       /\ cache' = [cache EXCEPT !.refs =
            [r \in RefNames |->
               IF /\ r \in Managed
                  /\ get_ref_sha(cache, r, ttl_meta) = None
                  /\ r \notin failing
                  /\ refs[r] # None
               THEN [age |-> 0, sha |-> refs[r]]
               ELSE cache.refs[r]]]
       /\ result' = [result EXCEPT !.branch_presence =
            [r \in Managed |-> Presence(r, failing)]]
  /\ pc' = "compare_pm"
  /\ UNCHANGED <<host, cacheFile, ttl_meta, loc, log, start, runs, interrupted, settled, tmpFile, outside_orchestrator>>

\* ------------------------------------------------ step 3: product == mirror
\* a branch on the status that resets on 'behind' without trying the
\* fast-forward
first_update_forced(status) ==
  IF status = "identical" THEN "none" ELSE "force"

\* the if/elif/else on a compare status: what is requested first
first_update(status) ==
  IF status = "identical" THEN "none"
  ELSE IF status = "behind" THEN "ff"
  ELSE "force"

\* step 3's branch on the status field of a compare response
EnforceBranch(status) ==
  LET status_pm == _compare_status(status) IN
  /\ loc' = [loc EXCEPT !.status_pm = status_pm]
  /\ IF first_update(status_pm) = "none"
       THEN /\ result' = [result EXCEPT !.product_merge = "up_to_date"]
            /\ pc' = "read_after"
       ELSE /\ pc' = IF first_update(status_pm) = "ff"
                       THEN "ff_product" ELSE "force_product"
            /\ UNCHANGED result

\* compare_refs(product, mirror) and the branch on its status; a failing
\* compare raises out of process_repo
CompareProductMirror ==
  /\ pc = "compare_pm"
  /\ \/ EnforceBranch(HostCompare(refs["product"], refs["mirror"]))
     \/ /\ pc' = "crashed"
        /\ UNCHANGED <<loc, result>>
  /\ UNCHANGED <<host, cacheFile, cache, ttl_meta, log, start, runs, interrupted, settled, tmpFile, outside_orchestrator>>

\* ff_update(ref, sha): the host carries out a fast-forward, or rejects
\* the request (not a fast-forward, or any other API failure)
FfUpdate(ref, sha, okpc, field, value, failpc) ==
  \/ /\ HostAcceptsFf(refs[ref], sha)
     /\ refs' = [refs EXCEPT ![ref] = sha]
     /\ log' = Append(log, Mutation("ff", ref, sha, TRUE))
     /\ result' = [result EXCEPT ![field] = value]
     /\ pc' = okpc
  \/ /\ log' = Append(log, Mutation("ff", ref, sha, FALSE))
     /\ pc' = failpc
     /\ UNCHANGED <<refs, result>>

\* _force_update(ref, sha): the host moves the ref, or the call raises
ForceUpdate(ref, sha, okpc, field, value) ==
  \/ /\ refs' = [refs EXCEPT ![ref] = sha]
     /\ log' = Append(log, Mutation("force", ref, sha, TRUE))
     /\ result' = [result EXCEPT ![field] = value]
     /\ pc' = okpc
  \/ /\ log' = Append(log, Mutation("force", ref, sha, FALSE))
     /\ pc' = "crashed"
     /\ UNCHANGED <<refs, result>>

\* status 'behind': ff_update(product, _head_sha(compare_pm, mirror_sha));
\* a GitHubApiError leads to the forced fallback
FfProduct ==
  /\ pc = "ff_product"
  /\ FfUpdate("product",
              _head_sha(refs["product"], refs["mirror"], loc.mirror_sha),
              "read_after", "product_merge", "fast-forwarded", "force_fallback")
  /\ UNCHANGED <<upstream, issues, hostMeta, cacheFile, cache, ttl_meta,
                 loc, start, runs, interrupted, settled, tmpFile, outside_orchestrator>>

ForceProductFallback ==
  /\ pc = "force_fallback"
  /\ ForceUpdate("product", loc.mirror_sha, "read_after",
                 "product_merge", "reset (ff failed)")
  /\ UNCHANGED <<upstream, issues, hostMeta, cacheFile, cache, ttl_meta,
                 loc, start, runs, interrupted, settled, tmpFile, outside_orchestrator>>

\* any other status: _force_update(product, mirror_sha)
ForceProduct ==
  /\ pc = "force_product"
  /\ ForceUpdate("product", loc.mirror_sha, "read_after",
                 "product_merge", <<"reset", loc.status_pm>>)
  /\ UNCHANGED <<upstream, issues, hostMeta, cacheFile, cache, ttl_meta,
                 loc, start, runs, interrupted, settled, tmpFile, outside_orchestrator>>

\* ------------------------------------------------ step 4: staging, feature
\* product_sha_after (cache-or-API) and product_changed
ReadProductAfter ==
  /\ pc = "read_after"
  /\ \E o \in Lookup("product") :
       /\ cache' = o.cache
       /\ IF o.ok
            THEN /\ loc' = [loc EXCEPT !.product_sha_after = o.sha]
                 /\ IF o.sha # loc.product_sha_before
                      THEN /\ result' = [result EXCEPT !.product_changed = "yes"]
                           /\ pc' = "parent"
                      ELSE /\ result' = [result EXCEPT
                                !.product_changed = "no",
                                !.staging_promo = "skipped (no product change)",
                                !.feature_promo = "skipped (no product change)",
                                !.snapshot_promo = "unchanged (create-once policy)"]
                           /\ pc' = "returned"
            ELSE /\ pc' = "crashed"
                 /\ UNCHANGED <<loc, result>>
  /\ UNCHANGED <<host, cacheFile, ttl_meta, log, start, runs, interrupted, settled, tmpFile, outside_orchestrator>>

\* downstream_target = _parent_sha(product_sha_after) or product_sha_after
DownstreamTarget ==
  /\ pc = "parent"
  /\ \/ LET parent_sha == _parent_sha(loc.product_sha_after) IN
        /\ loc' = [loc EXCEPT !.downstream_target =
                     IF parent_sha # None THEN parent_sha ELSE loc.product_sha_after]
        /\ result' = [result EXCEPT !.downstream_target =
                     IF parent_sha # None THEN "parent" ELSE "product (no parent)"]
        /\ pc' = "compare_ps"
     \/ /\ pc' = "crashed"
        /\ UNCHANGED <<loc, result>>
  /\ UNCHANGED <<host, cacheFile, cache, ttl_meta, log, start, runs, interrupted, settled, tmpFile, outside_orchestrator>>

\* compare_refs(ref, downstream_target) and the branch on its status
PromoCompare(ref, statusfield, promofield, updatepc, nextpc) ==
  \/ LET status == _compare_status(HostCompare(refs[ref], loc.downstream_target)) IN
     /\ loc' = [loc EXCEPT ![statusfield] = status]
     /\ IF first_update(status) = "none"
          THEN /\ result' = [result EXCEPT ![promofield] = "already at target"]
               /\ pc' = nextpc
          ELSE /\ pc' = updatepc
               /\ UNCHANGED result
  \/ /\ pc' = "crashed"
     /\ UNCHANGED <<loc, result>>

\* the update of staging or feature: ff_update on 'behind' (a rejection is
\* not handled), _force_update on any other status
PromoUpdate(ref, status, promofield, nextpc) ==
  IF first_update(status) = "ff"
    THEN FfUpdate(ref, _head_sha(refs[ref], loc.downstream_target, loc.downstream_target),
                  nextpc, promofield, "fast-forwarded to target", "crashed")
    ELSE ForceUpdate(ref, loc.downstream_target, nextpc,
                     promofield, <<"reset to target", status>>)

CompareStaging ==
  /\ pc = "compare_ps"
  /\ PromoCompare("staging", "status_ps", "staging_promo", "update_staging", "compare_fs")
  /\ UNCHANGED <<host, cacheFile, cache, ttl_meta, log, start, runs, interrupted, settled, tmpFile, outside_orchestrator>>

UpdateStaging ==
  /\ pc = "update_staging"
  /\ PromoUpdate("staging", loc.status_ps, "staging_promo", "compare_fs")
  /\ UNCHANGED <<upstream, issues, hostMeta, cacheFile, cache, ttl_meta,
                 loc, start, runs, interrupted, settled, tmpFile, outside_orchestrator>>

CompareFeature ==
  /\ pc = "compare_fs"
  /\ PromoCompare("feature", "status_fs", "feature_promo", "update_feature", "finish")
  /\ UNCHANGED <<host, cacheFile, cache, ttl_meta, log, start, runs, interrupted, settled, tmpFile, outside_orchestrator>>

UpdateFeature ==
  /\ pc = "update_feature"
  /\ PromoUpdate("feature", loc.status_fs, "feature_promo", "finish")
  /\ UNCHANGED <<upstream, issues, hostMeta, cacheFile, cache, ttl_meta,
                 loc, start, runs, interrupted, settled, tmpFile, outside_orchestrator>>

\* a step 5 that promotes the snapshot branch like staging and feature
Return_promoting_snapshot ==
  /\ pc = "finish"
  /\ refs' = [refs EXCEPT !["snapshot"] = loc.downstream_target]
  /\ result' = [result EXCEPT !.snapshot_promo = "reset to target"]
  /\ pc' = "returned"
  /\ UNCHANGED <<upstream, issues, hostMeta, cacheFile, cache, ttl_meta,
                 loc, log, start, runs, interrupted, settled, tmpFile, outside_orchestrator>>

\* step 5 and the return of the result
Return ==
  /\ pc = "finish"
  /\ result' = [result EXCEPT !.snapshot_promo = "unchanged (create-once policy)"]
  /\ pc' = "returned"
  /\ UNCHANGED <<host, cacheFile, cache, ttl_meta, loc, log, start, runs, interrupted, settled, tmpFile, outside_orchestrator>>

Next ==
  \/ Tick \/ UpstreamAdvance \/ LocalPush \/ CloseIssue
  \/ MainStart \/ SaveOpen \/ SaveDump \/ MainFinish \/ SaveCrash \/ MainAbort
  \/ FetchRepoMeta \/ SelectMirrorBranch \/ SyncMirror \/ ReportSyncFailure
  \/ ReadMirrorSha \/ ReportMirrorRefFailure
  \/ EnsureProduct \/ ReadProductBefore \/ EnsureStaging \/ ReadStaging
  \/ EnsureSnapshot \/ EnsureFeature \/ ReportBootstrapFailure
  \/ PresenceAudit
  \/ CompareProductMirror \/ FfProduct \/ ForceProductFallback \/ ForceProduct
  \/ ReadProductAfter \/ DownstreamTarget
  \/ CompareStaging \/ UpdateStaging \/ CompareFeature \/ UpdateFeature
  \/ Return

Spec == Init /\ [][Next]_vars


\* ============================================================ API clients
\* One call of GitHubApi.request (github_api.py) or of github_request
\* (_common.py) against a host that answers each HTTP attempt as it likes.
max_attempts == 5
retries == 3

Clients == {"GitHubApi", "github_request"}

\* a header: absent, an integer number of seconds, or other text (an
\* HTTP-date in Retry-After).  X-RateLimit-Reset is kept as the difference
\* between the reset epoch and int(time.time())
Absent == [kind |-> "absent", n |-> 0]
Text == [kind |-> "text", n |-> 0]
Seconds(n) == [kind |-> "int", n |-> n]
RetryAfterSeconds == {0, 1, 60, 61}
ResetSeconds == {-30, 30, 61}
RetryAfterValues == {Absent, Text} \cup {Seconds(n) : n \in RetryAfterSeconds}
ResetValues == {Absent, Text} \cup {Seconds(n) : n \in ResetSeconds}
RemainingValues == {"0", "17"}

\* the HTTP statuses of the answers; status 0 stands for a urllib URLError
\* (no answer: DNS failure, connection refused or reset)
RateLimitStatuses == {403, 429}
ServerErrorStatuses == {500, 502, 503, 504}
OtherClientErrors == {404, 409, 410, 422}
Responses ==
  {[status |-> st, retry_after |-> Absent, remaining |-> "", reset |-> Absent] :
     st \in {0, 200} \cup OtherClientErrors}
  \cup
  {[status |-> st, retry_after |-> ra, remaining |-> rem, reset |-> rs] :
     st \in RateLimitStatuses \cup ServerErrorStatuses,
     ra \in RetryAfterValues, rem \in RemainingValues, rs \in ResetValues}

ClassOf(status) ==
  IF status = 200 THEN "ok"
  ELSE IF status = 0 THEN "transport"
  ELSE IF status \in RateLimitStatuses THEN "ratelimit"
  ELSE IF status \in ServerErrorStatuses THEN "5xx"
  ELSE "4xx"

Min(a, b) == IF a < b THEN a ELSE b
Max(a, b) == IF a > b THEN a ELSE b

\* str.isdigit() of a header value
isdigit(h) == h.kind = "int" /\ h.n >= 0

\* ---- GitHubApi._request_with_retry
\* a status list that makes every error status retryable
retryable_any_error(status) == status >= 400

\* the statuses _request_with_retry sleeps on and tries again
retryable(status) == status \in {403, 429, 500, 502, 503, 504}

\* _retry_after_seconds: the Retry-After header as an int, else the seconds
\* until X-RateLimit-Reset, else None; the caller's "or" treats None and 0
\* alike, both are None here
_retry_after_seconds(r) ==
  IF r.retry_after.kind # "absent"
    THEN (IF r.retry_after.kind = "int" THEN r.retry_after.n ELSE None)
  ELSE IF r.reset.kind # "absent"
    THEN (IF r.reset.kind = "int" THEN Max(0, r.reset.n) ELSE None)
  ELSE None

\* a URLError handler that raises on the first failure
transport_gives_up_at_once(a) == TRUE

\* the URLError handler raises only on the last attempt
transport_gives_up(a) == a = max_attempts

\* one pass of the for loop: urlopen, then return, raise, or sleep and
\* go on to the next attempt
ApiAttempt ==
  /\ client = "GitHubApi" /\ cpc = "running"
  /\ attempt <= max_attempts
  /\ \E r \in Responses :
       /\ resp' = r
       /\ calls' = calls + 1
       /\ seen' = seen \cup {ClassOf(r.status)}
       /\ IF r.status = 200
            THEN /\ cpc' = "returned"
                 /\ UNCHANGED <<attempt, wait, slept, error>>
          ELSE IF r.status = 0
            THEN IF transport_gives_up(attempt)
                   THEN /\ cpc' = "raised"
                        /\ error' = [status |-> 0, message |-> "Network error"]
                        /\ wait' = 0
                        /\ UNCHANGED <<attempt, slept>>
                   ELSE /\ wait' = Min(2 ^ attempt, 20)
                        /\ slept' = slept + 1
                        /\ attempt' = attempt + 1
                        /\ UNCHANGED <<cpc, error>>
          ELSE IF retryable(r.status)
            THEN /\ wait' = IF _retry_after_seconds(r) # None
                              THEN _retry_after_seconds(r)
                              ELSE Min(2 ^ attempt, 20)
                 /\ slept' = slept + 1
                 /\ attempt' = attempt + 1
                 /\ UNCHANGED <<cpc, error>>
          ELSE /\ cpc' = "raised"
               /\ error' = [status |-> r.status, message |-> "response"]
               /\ wait' = 0
               /\ UNCHANGED <<attempt, slept>>
  /\ UNCHANGED <<client, outside_request>>

\* the loop ran out: raise GitHubApiError(0, "GitHub API retry limit exceeded")
ApiGiveUp ==
  /\ client = "GitHubApi" /\ cpc = "running"
  /\ attempt > max_attempts
  /\ cpc' = "raised"
  /\ error' = [status |-> 0, message |-> "GitHub API retry limit exceeded"]
  /\ UNCHANGED <<client, attempt, resp, wait, slept, calls, seen, outside_request>>

\* ---- _common.github_request
\* a retry test that forgets the budget
may_retry_always(a) == TRUE

\* attempt < retries - 1
may_retry(a) == a < retries - 1

\* the wait a 403 asks for: {} for None
requested_wait(r) ==
  IF r.retry_after.kind # "absent" /\ isdigit(r.retry_after)
    THEN {r.retry_after.n}
  ELSE IF r.remaining = "0" /\ r.reset.kind # "absent" /\ r.reset.kind = "int"
    THEN {Max(0, r.reset.n)}
  ELSE {}

\* one pass of the while loop
CommonAttempt ==
  /\ client = "github_request" /\ cpc = "running"
  /\ \E r \in Responses :
       /\ resp' = r
       /\ calls' = calls + 1
       /\ seen' = seen \cup {ClassOf(r.status)}
       /\ IF r.status = 200
            THEN /\ cpc' = "returned"
                 /\ UNCHANGED <<attempt, wait, slept, error>>
          ELSE IF r.status = 0
            THEN IF may_retry(attempt)
                   THEN /\ wait' = 1 + attempt
                        /\ slept' = slept + 1
                        /\ attempt' = attempt + 1
                        /\ UNCHANGED <<cpc, error>>
                   ELSE /\ cpc' = "raised"
                        /\ error' = [status |-> 0, message |-> "Network error"]
                        /\ wait' = 0
                        /\ UNCHANGED <<attempt, slept>>
          ELSE IF r.status = 403 /\ may_retry(attempt) /\ requested_wait(r) # {}
            THEN /\ wait' = Max(1, Min(60, CHOOSE w \in requested_wait(r) : TRUE))
                 /\ slept' = slept + 1
                 /\ attempt' = attempt + 1
                 /\ UNCHANGED <<cpc, error>>
          ELSE IF r.status \in {500, 502, 503, 504} /\ may_retry(attempt)
            THEN /\ wait' = 1 + attempt
                 /\ slept' = slept + 1
                 /\ attempt' = attempt + 1
                 /\ UNCHANGED <<cpc, error>>
          ELSE /\ cpc' = "raised"
               /\ error' = [status |-> r.status, message |-> "response"]
               /\ wait' = 0
               /\ UNCHANGED <<attempt, slept>>
  /\ UNCHANGED <<client, outside_request>>

\* a call of either client is about to make its first attempt
RequestInit ==
  /\ OrchestratorAtRest
  /\ SelectAtRest
  /\ PolicyAtRest
  /\ BranchOpsAtRest
  /\ PaginateAtRest
  /\ LoadAtRest
  /\ PairAtRest
  /\ client \in Clients
  /\ cpc = "running"
  /\ attempt = IF client = "GitHubApi" THEN 1 ELSE 0
  /\ resp = NoResponse /\ wait = 0 /\ slept = 0 /\ calls = 0
  /\ seen = {} /\ error = NoError

RequestNext == ApiAttempt \/ ApiGiveUp \/ CommonAttempt

RequestSpec == RequestInit /\ [][RequestNext]_vars

\* ================================================== mirror branch selection
\* _select_mirror_branch as process_repo calls it, one host request per step
BranchNames == {"main", "master", "develop"}

\* a _ref_sha_optional that treats every GitHubApiError as an absent ref
RefOutcomes_all_absent(name) ==
  IF name \in heads THEN {"found", "absent"} ELSE {"absent"}

\* _ref_sha_optional(name): the ref's SHA, None on a 404, and any other
\* GitHubApiError raised again
RefOutcomes(name) ==
  (IF name \in heads THEN {"found"} ELSE {"absent"}) \cup {"error"}

\* one candidate of _select_mirror_branch: skipped when the name is missing
\* or empty, returned when its ref resolves, else on to the next candidate
\* (after the last one: GitHubApiError(404, "Missing mirror branch"))
TryCandidate(name, nextspc) ==
  IF name = ""
    THEN /\ spc' = nextspc
         /\ UNCHANGED <<tried, mirror_branch, sel_status, pc>>
    ELSE \E o \in RefOutcomes(name) :
           /\ tried' = Append(tried, name)
           /\ IF o = "found"
                THEN /\ mirror_branch' = name
                     /\ spc' = "selected"
                     /\ pc' = "sync"
                     /\ UNCHANGED sel_status
              ELSE IF o = "absent"
                THEN /\ spc' = nextspc
                     /\ sel_status' = IF nextspc = "raised" THEN 404 ELSE sel_status
                     /\ UNCHANGED <<mirror_branch, pc>>
              ELSE /\ spc' = "raised"
                   /\ sel_status' = 500
                   /\ UNCHANGED <<mirror_branch, pc>>

SelectParentDefault ==
  /\ spc = "parent_default"
  /\ TryCandidate(repo_details.parent_default, "repo_default")
  /\ UNCHANGED <<repo_details, heads, result, outside_select>>

SelectRepoDefault ==
  /\ spc = "repo_default"
  /\ TryCandidate(repo_details.default_branch, "main")
  /\ UNCHANGED <<repo_details, heads, result, outside_select>>

\* for candidate in ("main", "master")
SelectFallback ==
  /\ spc \in {"main", "master"}
  /\ TryCandidate(spc, IF spc = "main" THEN "master" ELSE "raised")
  /\ UNCHANGED <<repo_details, heads, result, outside_select>>

\* process_repo: except GitHubApiError around _select_mirror_branch
SelectMissing ==
  /\ spc = "raised"
  /\ Skip("Skipped: missing mirror branch")
  /\ spc' = "handled"
  /\ UNCHANGED <<repo_details, heads, tried, mirror_branch, sel_status, outside_select>>

\* process_repo has passed its gate for a fork whose repo_details name any
\* default branches and whose refs are any set of branch names
SelectInit ==
  /\ upstream = 1
  /\ refs = [r \in RefNames |-> IF r = "mirror" THEN 1 ELSE None]
  /\ issues = [t \in Titles |-> 0]
  /\ hostMeta = "fork"
  /\ cacheFile = EmptyCache /\ cache = EmptyCache /\ tmpFile = EmptyCache
  /\ ttl_meta = 0
  /\ pc = "select" /\ loc = NoLoc /\ result = NoResult
  /\ log = <<>> /\ start = refs /\ runs = 1 /\ interrupted = NoRun
  /\ settled = FALSE
  /\ ClientAtRest
  /\ PolicyAtRest
  /\ BranchOpsAtRest
  /\ PaginateAtRest
  /\ LoadAtRest
  /\ PairAtRest
  /\ repo_details \in [parent_default : BranchNames \cup {""},
                  default_branch : BranchNames \cup {""}]
  /\ heads \in SUBSET BranchNames
  /\ spc = "parent_default" /\ tried = <<>>
  /\ mirror_branch = "" /\ sel_status = 0

SelectNext ==
  SelectParentDefault \/ SelectRepoDefault \/ SelectFallback \/ SelectMissing

SelectSpec == SelectInit /\ [][SelectNext]_vars

\* ============================================================ branch policy
\* load_branch_policy on a document whose entries are well-formed objects
\* (nameEnv and track valid, every name a valid ref name)
MaxEntries == 3
prefix == "automation"
SecretNames == {"main", "staging"}

\* the sequences over S of length at most n
SeqUpTo(S, n) == UNION {[1..k -> S] : k \in 0..n}

\* full = f"{prefix}/{name}"
FullRef(name) == <<prefix, name>>

\* the loop over branches: a nameEnv already in by_env is rejected, else
\* its BranchSpec is stored under it
LoadBranches ==
  /\ lpc = "branches"
  /\ IF li > Len(policy.branches)
       THEN /\ lpc' = "order" /\ li' = 1
            /\ UNCHANGED by_env
     ELSE LET name_env == policy.branches[li] IN
       IF by_env[name_env] # NoSpec
         THEN /\ lpc' = "rejected: Duplicate branch nameEnv"
              /\ UNCHANGED <<li, by_env>>
         ELSE /\ by_env' = [by_env EXCEPT ![name_env] = FullRef(secrets[name_env])]
              /\ li' = li + 1
              /\ UNCHANGED lpc
  /\ UNCHANGED <<policy, secrets, order, outside_policy>>

\* the loop over createOrder: a key by_env lacks is rejected
LoadOrder ==
  /\ lpc = "order"
  /\ IF li > Len(policy.createOrder)
       THEN /\ lpc' = "check"
            /\ UNCHANGED <<li, order>>
     ELSE LET spec == by_env[policy.createOrder[li]] IN
       IF spec = NoSpec
         THEN /\ lpc' = "rejected: createOrder references unknown env"
              /\ UNCHANGED <<li, order>>
         ELSE /\ order' = Append(order, spec)
              /\ li' = li + 1
              /\ UNCHANGED lpc
  /\ UNCHANGED <<policy, secrets, by_env, outside_policy>>

\* len({spec.full_name for spec in order}) != len(order)
order_has_duplicates(o) == Cardinality({o[i] : i \in DOMAIN o}) # Len(o)

\* the final check, then return BranchPolicy(prefix, order, by_env)
LoadCheck ==
  /\ lpc = "check"
  /\ lpc' = IF order_has_duplicates(order)
              THEN "rejected: Branch policy createOrder contains duplicates"
              ELSE "loaded"
  /\ UNCHANGED <<policy, secrets, li, by_env, order, outside_policy>>

\* load_branch_policy is called on any document of at most MaxEntries
\* entries and createOrder keys, the secret files holding any names
PolicyInit ==
  /\ OrchestratorAtRest
  /\ ClientAtRest
  /\ SelectAtRest
  /\ BranchOpsAtRest
  /\ PaginateAtRest
  /\ LoadAtRest
  /\ PairAtRest
  /\ policy \in [branches : SeqUpTo(Envs, MaxEntries),
                 createOrder : SeqUpTo(Envs, MaxEntries)]
  /\ secrets \in [Envs -> SecretNames]
  /\ lpc = "branches" /\ li = 1
  /\ by_env = [e \in Envs |-> NoSpec] /\ order = <<>>

PolicyNext == LoadBranches \/ LoadOrder \/ LoadCheck

PolicySpec == PolicyInit /\ [][PolicyNext]_vars

\* ============================================================== branch_ops
\* branch_ops.main once the policy is loaded and upstream_sha is known
MaxSha == 2
JobTypes == {"create", "polling", "sync"}
Tracks == {"upstream", "main"}

\* the statuses an update_branch request can fail with
UpdateFailures == {422, 500}

\* if not spec.update: continue
skips_update(spec) == ~spec.update

\* the first loop over policy.order: a branch that exists is skipped, an
\* absent one is created at base_sha (= upstream_sha), or the request raises
BoCreate ==
  /\ bpc = "create"
  /\ IF bi > Len(bpolicy)
       THEN /\ bpc' = IF job_type \in {"polling", "sync"} THEN "default" ELSE "output"
            /\ bi' = 1
            /\ UNCHANGED <<bheads, created>>
     ELSE LET full == bpolicy[bi].full_name IN
       IF bheads[full] # None
         THEN /\ bi' = bi + 1
              /\ UNCHANGED <<bpc, bheads, created>>
         ELSE /\ created' = Append(created, full)
              /\ \/ /\ bheads' = [bheads EXCEPT ![full] = upstream_sha]
                    /\ bi' = bi + 1
                    /\ UNCHANGED bpc
                 \/ /\ bpc' = "raised"
                    /\ UNCHANGED <<bheads, bi>>
  /\ UNCHANGED <<job_type, input_data, bpolicy, upstream_sha, main_sha, updated,
                 outside_branch_ops>>

\* polling of a fork whose default branch has the parent's name: the default
\* branch is updated without force when it is not at upstream_sha; a 403,
\* 404 or 422 is skipped, any other error raised
BoDefault ==
  /\ bpc = "default"
  /\ LET name == input_data.repo_default_branch IN
     IF /\ job_type = "polling" /\ input_data.repo_is_fork
        /\ name = input_data.repo_parent_default_branch
       THEN IF bheads[name] = None
              THEN /\ bpc' = "raised"
                   /\ UNCHANGED <<bheads, updated>>
            ELSE IF bheads[name] # upstream_sha
              THEN /\ updated' = Append(updated,
                                    [branch |-> name, sha |-> upstream_sha, force |-> FALSE])
                   /\ \/ /\ bheads[name] < upstream_sha
                         /\ bheads' = [bheads EXCEPT ![name] = upstream_sha]
                         /\ bpc' = "update"
                      \/ \E status \in UpdateFailures :
                           /\ bpc' = IF status \in {403, 404, 422} THEN "update" ELSE "raised"
                           /\ UNCHANGED bheads
            ELSE /\ bpc' = "update"
                 /\ UNCHANGED <<bheads, updated>>
       ELSE /\ bpc' = "update"
            /\ UNCHANGED <<bheads, updated>>
  /\ UNCHANGED <<job_type, input_data, bpolicy, upstream_sha, main_sha, bi, created,
                 outside_branch_ops>>

\* _get_main_sha: the SHA of the GIT_BRANCH_MAIN branch, fetched from the
\* host the first time it is asked for and kept for the rest of the job
_get_main_sha == IF main_sha = None THEN bheads[MainRef] ELSE main_sha

\* the second loop over policy.order: a branch with update set is forced to
\* upstream_sha or to the SHA of the GIT_BRANCH_MAIN branch when it differs
BoUpdate ==
  /\ bpc = "update"
  /\ IF bi > Len(bpolicy)
       THEN /\ bpc' = "output"
            /\ UNCHANGED <<bi, bheads, main_sha, updated>>
     ELSE LET spec == bpolicy[bi]
              name == spec.full_name
              desired_sha == IF spec.track = "upstream" THEN upstream_sha
                             ELSE _get_main_sha
          IN
       IF skips_update(spec)
         THEN /\ bi' = bi + 1
              /\ UNCHANGED <<bpc, bheads, main_sha, updated>>
       ELSE IF desired_sha = None \/ bheads[name] = None
         THEN /\ bpc' = "raised"
              /\ UNCHANGED <<bi, bheads, main_sha, updated>>
       ELSE /\ main_sha' = IF spec.track = "upstream" THEN main_sha ELSE desired_sha
            /\ IF bheads[name] # desired_sha
                 THEN /\ updated' = Append(updated,
                                       [branch |-> name, sha |-> desired_sha, force |-> TRUE])
                      /\ \/ /\ bheads' = [bheads EXCEPT ![name] = desired_sha]
                            /\ bi' = bi + 1
                            /\ UNCHANGED bpc
                         \/ /\ bpc' = "raised"
                            /\ UNCHANGED <<bheads, bi>>
                 ELSE /\ bi' = bi + 1
                      /\ UNCHANGED <<bpc, bheads, updated>>
  /\ UNCHANGED <<job_type, input_data, bpolicy, upstream_sha, created,
                 outside_branch_ops>>

\* the payload is written and main returns 0
BoOutput ==
  /\ bpc = "output"
  /\ bpc' = "done"
  /\ UNCHANGED <<job_type, input_data, bpolicy, bheads, upstream_sha, main_sha, bi,
                 created, updated, outside_branch_ops>>

\* main for any job type on any repository: the policy's createOrder holds
\* the GIT_BRANCH_MAIN branch and a second branch in either order, each with
\* any track and update flag; every branch is absent or at some commit
BranchOpsInit ==
  /\ OrchestratorAtRest
  /\ ClientAtRest
  /\ SelectAtRest
  /\ PolicyAtRest
  /\ PaginateAtRest
  /\ LoadAtRest
  /\ PairAtRest
  /\ job_type \in JobTypes
  /\ input_data \in [repo_is_fork : BOOLEAN,
                     repo_default_branch : {<<"main">>, SnapshotRef},
                     repo_parent_default_branch : {<<"main">>, SnapshotRef}]
  /\ \E t1, t2 \in Tracks, u1, u2 \in BOOLEAN :
       LET main_spec == [full_name |-> MainRef, track |-> t1, update |-> u1]
           other == [full_name |-> SnapshotRef, track |-> t2, update |-> u2]
       IN bpolicy \in {<<main_spec, other>>, <<other, main_spec>>}
  /\ bheads \in [BoNames -> 0..MaxSha]
  /\ upstream_sha = MaxSha /\ main_sha = None
  /\ bpc = "create" /\ bi = 1
  /\ created = <<>> /\ updated = <<>>

BranchOpsNext == BoCreate \/ BoDefault \/ BoUpdate \/ BoOutput

BranchOpsSpec == BranchOpsInit /\ [][BranchOpsNext]_vars

\* ============================================================== pagination
\* GitHubApi.paginate against a host that serves a finite number of
\* non-empty pages; an item is the pair of its page and its place in it
MaxPages == 3
MaxItems == 2
per_page == 100

\* the names a host gives the Link header, "" when it sends none, and the
\* link relations a Link header lists
LinkKeys == {"", "Link", "link"}
LinkValues == {{"next", "last"}, {"prev", "first"}}
Headers ==
  {[key |-> "", rels |-> {}]} \cup [key : LinkKeys \ {""}, rels : LinkValues]

\* k.lower() for the header names at hand
lower(key) == IF key = "Link" THEN "link" ELSE key

\* resp.data and resp.headers of the request for page n
DataOf(n) == IF n \in DOMAIN pages THEN [j \in 1..pages[n].size |-> <<n, j>>] ELSE <<>>
HeadersOf(n) == IF n \in DOMAIN pages THEN pages[n].headers ELSE [key |-> "", rels |-> {}]

\* a loop end that proceeds to the next page whatever the headers say
stops_at_link_never(headers) == FALSE

\* the two tests at the end of the loop body: no Link header at all, or a
\* Link header that lacks rel="next"
stops_at_link(headers) ==
  \/ "link" # lower(headers.key)
  \/ headers.key \in {"Link", "link"} /\ "next" \notin headers.rels

\* self.request("GET", path, per_page=100, page=page): the call raises, an
\* empty list ends the loop, any other list is yielded
PaginateRequest ==
  /\ ppc = "request"
  /\ requests' = Append(requests, [page |-> page, per_page |-> per_page])
  /\ \/ /\ ppc' = "raised"
        /\ UNCHANGED pj
     \/ /\ ppc' = IF DataOf(page) = <<>> THEN "done" ELSE "yield"
        /\ pj' = 1
  /\ UNCHANGED <<pages, page, yielded, outside_paginate>>

\* for item in resp.data: yield item
PaginateYield ==
  /\ ppc = "yield"
  /\ IF pj <= Len(DataOf(page))
       THEN /\ yielded' = Append(yielded, DataOf(page)[pj])
            /\ pj' = pj + 1
            /\ UNCHANGED ppc
       ELSE /\ ppc' = "link"
            /\ UNCHANGED <<pj, yielded>>
  /\ UNCHANGED <<pages, page, requests, outside_paginate>>

\* the end of the loop body: break, or page += 1
PaginateLink ==
  /\ ppc = "link"
  /\ IF stops_at_link(HeadersOf(page))
       THEN /\ ppc' = "done"
            /\ UNCHANGED page
       ELSE /\ ppc' = "request"
            /\ page' = page + 1
  /\ UNCHANGED <<pages, pj, requests, yielded, outside_paginate>>

\* paginate is called for a host with at most MaxPages non-empty pages of
\* at most MaxItems items each, any headers on each page
PaginateInit ==
  /\ OrchestratorAtRest
  /\ ClientAtRest
  /\ SelectAtRest
  /\ PolicyAtRest
  /\ BranchOpsAtRest
  /\ LoadAtRest
  /\ PairAtRest
  /\ pages \in SeqUpTo([size : 1..MaxItems, headers : Headers], MaxPages)
  /\ page = 1 /\ ppc = "request" /\ pj = 0
  /\ requests = <<>> /\ yielded = <<>>

PaginateNext == PaginateRequest \/ PaginateYield \/ PaginateLink

PaginateSpec == PaginateInit /\ [][PaginateNext]_vars

\* the caller iterates until the generator is exhausted
PaginateFairSpec == PaginateSpec /\ WF_vars(PaginateNext)

\* ========================================================== presence audit
\* the presence summary of process_repo when branches may have been deleted
\* since the bootstrap step: any managed branch absent or present, cached
\* or not
AuditInit ==
  /\ upstream = 1
  /\ refs \in {f \in [RefNames -> {None, 1}] : f["mirror"] = 1}
  /\ issues = [t \in Titles |-> 0]
  /\ hostMeta = "fork"
  /\ cacheFile = EmptyCache /\ tmpFile = EmptyCache
  /\ \E cached \in SUBSET Managed :
       cache = [meta |-> [age |-> 0, value |-> "fork"],
                refs |-> [r \in RefNames |->
                           IF r \in cached THEN [age |-> 0, sha |-> 1] ELSE NoEntry]]
  /\ ttl_meta \in 0..MaxTTL
  /\ pc = "presence"
  /\ loc = [NoLoc EXCEPT !.mirror_sha = 1]
  /\ result = [NoResult EXCEPT !.mirror_sync = "ok", !.branch_bootstrap = "ok"]
  /\ log = <<>> /\ start = refs /\ runs = 1 /\ interrupted = NoRun
  /\ settled = FALSE
  /\ ClientAtRest
  /\ SelectAtRest
  /\ PolicyAtRest
  /\ BranchOpsAtRest
  /\ PaginateAtRest
  /\ LoadAtRest
  /\ PairAtRest

AuditSpec == AuditInit /\ [][PresenceAudit]_vars

\* ====================================================== product enforcement
\* step 3 of process_repo for any product and mirror SHAs and any compare
\* response: the status the host computes, a response without status, or
\* one with a status the code does not know
Commits == 1..(2 * MaxUpstream)
CompareResponses(base, head) == {HostCompare(base, head), "", "unrelated"}

EnforceCompare ==
  /\ pc = "compare_pm"
  /\ \E status \in CompareResponses(refs["product"], refs["mirror"]) :
       EnforceBranch(status)
  /\ UNCHANGED <<host, cacheFile, cache, ttl_meta, log, start, runs, interrupted, settled,
                 tmpFile, outside_orchestrator>>

EnforceInit ==
  /\ upstream \in 1..MaxUpstream
  /\ \E p \in Commits :
       refs = [r \in RefNames |-> IF r = "mirror" THEN upstream
                                  ELSE IF r = "product" THEN p ELSE 1]
  /\ issues = [t \in Titles |-> 0]
  /\ hostMeta = "fork"
  /\ cacheFile = EmptyCache /\ cache = EmptyCache /\ tmpFile = EmptyCache
  /\ ttl_meta = 0
  /\ pc = "compare_pm"
  /\ loc = [NoLoc EXCEPT !.mirror_sha = upstream,
                         !.product_sha_before = refs["product"], !.staging_sha = 1]
  /\ result = [NoResult EXCEPT !.mirror_sync = "ok", !.branch_bootstrap = "ok"]
  /\ log = <<>> /\ start = refs /\ runs = 1 /\ interrupted = NoRun
  /\ settled = FALSE
  /\ ClientAtRest
  /\ SelectAtRest
  /\ PolicyAtRest
  /\ BranchOpsAtRest
  /\ PaginateAtRest
  /\ LoadAtRest
  /\ PairAtRest

EnforceNext == EnforceCompare \/ FfProduct \/ ForceProductFallback \/ ForceProduct

EnforceSpec == EnforceInit /\ [][EnforceNext]_vars

\* ============================================================== load_cache
\* repo_metadata_cache.load_cache on any file
CACHE_VERSION == 1
MAX_CACHE_BYTES == 10 * 1024 * 1024

\* the "version" of a document: its JSON type and number, or absent
Versions ==
  {<<"int", CACHE_VERSION>>, <<"int", CACHE_VERSION + 1>>,
   <<"str", CACHE_VERSION>>, <<"absent", 0>>}

\* a JSON document: an object with a version and with orgs holding entries,
\* an empty object, a list or nothing; or an array
Documents ==
  [kind : {"object"}, version : Versions,
   orgs : {"entries", "empty", "list", "absent"}]
  \cup {[kind |-> "array", version |-> <<"absent", 0>>, orgs |-> "absent"]}

\* {"version": CACHE_VERSION, "orgs": {}}
EmptyDocument ==
  [kind |-> "object", version |-> <<"int", CACHE_VERSION>>, orgs |-> "empty"]

\* what can be at the cache path: no path configured, no file, or a file at
\* or over the size limit, readable or not, holding JSON, text that is not
\* JSON, or bytes that are not UTF-8
Files ==
  {NoFile, [NoFile EXCEPT !.path = ""]}
  \cup [path : {"cache.json"}, exists : {TRUE},
        size : {MAX_CACHE_BYTES, MAX_CACHE_BYTES + 1}, readable : BOOLEAN,
        bytes : {"text", "binary"}, doc : {NoDocument}]
  \cup [path : {"cache.json"}, exists : {TRUE},
        size : {MAX_CACHE_BYTES, MAX_CACHE_BYTES + 1}, readable : BOOLEAN,
        bytes : {"json"}, doc : Documents]

\* _load_json returns a new empty cache
ReturnEmpty ==
  /\ document' = EmptyDocument
  /\ ldpc' = "returned"
  /\ UNCHANGED raised

\* if not path or not os.path.exists(path)
LoadExists ==
  /\ ldpc = "exists"
  /\ IF disk.path = "" \/ ~disk.exists
       THEN ReturnEmpty
       ELSE ldpc' = "size" /\ UNCHANGED <<document, raised>>
  /\ UNCHANGED <<disk, outside_load>>

\* if os.path.getsize(path) > MAX_CACHE_BYTES
LoadSize ==
  /\ ldpc = "size"
  /\ IF disk.size > MAX_CACHE_BYTES
       THEN ReturnEmpty
       ELSE ldpc' = "read" /\ UNCHANGED <<document, raised>>
  /\ UNCHANGED <<disk, outside_load>>

\* open the file as UTF-8 text and json.load it; OSError and JSONDecodeError
\* are caught, the UnicodeDecodeError of the decoder is not
LoadRead ==
  /\ ldpc = "read"
  /\ IF ~disk.readable \/ disk.bytes = "text"
       THEN ReturnEmpty
     ELSE IF disk.bytes = "binary"
       THEN /\ raised' = "UnicodeDecodeError"
            /\ ldpc' = "raised"
            /\ UNCHANGED document
     ELSE /\ document' = disk.doc
          /\ ldpc' = "validate"
          /\ UNCHANGED raised
  /\ UNCHANGED <<disk, outside_load>>

\* the checks of the parsed document: a dict of the current version, its
\* orgs replaced by {} when not a dict
LoadValidate ==
  /\ ldpc = "validate"
  /\ IF document.kind # "object" \/ document.version # <<"int", CACHE_VERSION>>
       THEN ReturnEmpty
       ELSE /\ document' = [document EXCEPT
                  !.orgs = IF @ \in {"entries", "empty"} THEN @ ELSE "empty"]
            /\ ldpc' = "returned"
            /\ UNCHANGED raised
  /\ UNCHANGED <<disk, outside_load>>

LoadInit ==
  /\ OrchestratorAtRest
  /\ ClientAtRest
  /\ SelectAtRest
  /\ PolicyAtRest
  /\ BranchOpsAtRest
  /\ PaginateAtRest
  /\ PairAtRest
  /\ disk \in Files
  /\ ldpc = "exists" /\ document = NoDocument /\ raised = ""

LoadNext == LoadExists \/ LoadSize \/ LoadRead \/ LoadValidate

LoadSpec == LoadInit /\ [][LoadNext]_vars

\* ========================================================= two repositories
\* main calls process_repo for the repositories of one organisation with one
\* cache document.  The steps of two calls are interleaved here; each step
\* is made a second time on a document that holds the one repository only.
Org == "org"
Repos == {"alpha", "beta"}

\* a _repo_cache that returns the organisation's dict for every repository
_repo_cache_of_org(org, repo) == <<org>>

\* _repo_cache: the sub-dict data["orgs"][org]["repos"][repo], named by its
\* path in the document
_repo_cache(org, repo) == <<org, repo>>

\* what a repository's sub-dict can hold from an earlier run
CarriedCaches ==
  {EmptyCache, set_repo_meta(set_ref_sha(EmptyCache, "product", 1), "fork")}

PairNoLoc == [mirror_sha |-> None, product_sha_before |-> None,
              product_sha_after |-> None]
PairNoResult == [notes |-> "", product_merge |-> "", product_changed |-> ""]

\* a process_repo call together with the sub-dict it works on
WithCache(p, c) ==
  [refs |-> p.refs, pc |-> p.pc, loc |-> p.loc, result |-> p.result, cache |-> c]
WithoutCache(st) ==
  [refs |-> st.refs, pc |-> st.pc, loc |-> st.loc, result |-> st.result]

\* get_ref_sha, and on a miss _ref_sha from the host and set_ref_sha
PairRefSha(st, ref, field, nextpc, ttl, fail) ==
  LET cached == get_ref_sha(st.cache, ref, ttl) IN
  IF cached # None
    THEN [st EXCEPT !.loc[field] = cached, !.pc = nextpc]
  ELSE IF fail
    THEN [st EXCEPT !.pc = "crashed"]
  ELSE [st EXCEPT !.loc[field] = st.refs[ref],
                  !.cache = set_ref_sha(@, ref, st.refs[ref]),
                  !.pc = nextpc]

\* the next step of a process_repo call: the steps that use the cache and
\* the product update between them; fail: the host call of the step fails
RepoStep(st, ttl, fail) ==
  CASE st.pc = "meta" ->
         IF get_repo_meta(st.cache, ttl) # "none"
           THEN [st EXCEPT !.pc = "read_mirror"]
         ELSE IF fail
           THEN [st EXCEPT !.result.notes = "Skipped: failed to fetch repo metadata",
                           !.pc = "returned"]
         ELSE [st EXCEPT !.cache = set_repo_meta(@, "fork"), !.pc = "read_mirror"]
    [] st.pc = "read_mirror" ->
         PairRefSha(st, "mirror", "mirror_sha", "read_product", ttl, fail)
    [] st.pc = "read_product" ->
         PairRefSha(st, "product", "product_sha_before", "enforce", ttl, fail)
    [] st.pc = "enforce" ->
         LET status == HostCompare(st.refs["product"], st.refs["mirror"]) IN
         IF fail THEN [st EXCEPT !.pc = "crashed"]
         ELSE IF first_update(status) = "none"
           THEN [st EXCEPT !.result.product_merge = "up_to_date",
                           !.pc = "read_after"]
         ELSE IF first_update(status) = "ff"
           THEN [st EXCEPT !.refs["product"] =
                             _head_sha(st.refs["product"], st.refs["mirror"],
                                       st.loc.mirror_sha),
                           !.result.product_merge = "fast-forwarded",
                           !.pc = "read_after"]
         ELSE [st EXCEPT !.refs["product"] = st.loc.mirror_sha,
                         !.result.product_merge = <<"reset", status>>,
                         !.pc = "read_after"]
    [] st.pc = "read_after" ->
         LET o == PairRefSha(st, "product", "product_sha_after", "returned", ttl, fail) IN
         IF o.pc = "crashed" THEN o
         ELSE [o EXCEPT !.result.product_changed =
                 IF o.loc.product_sha_after # o.loc.product_sha_before
                   THEN "yes" ELSE "no"]
    [] OTHER -> st

\* one step of the call for repository r, on main's document and on r's own
PairStep(r) ==
  /\ procs[r].pc \notin {"returned", "crashed"}
  /\ \E fail \in BOOLEAN :
       LET out == RepoStep(WithCache(procs[r], shared_cache[_repo_cache(Org, r)]),
                           ttl_meta, fail)
       IN /\ shared_cache' = [shared_cache EXCEPT ![_repo_cache(Org, r)] = out.cache]
          /\ procs' = [procs EXCEPT ![r] = WithoutCache(out)]
          /\ alone' = [alone EXCEPT ![r] = RepoStep(@, ttl_meta, fail)]
  /\ UNCHANGED outside_pair

\* time passes while the repositories are processed
PairTick ==
  /\ \E r \in Repos : procs[r].pc \notin {"returned", "crashed"}
  /\ shared_cache' = [k \in DOMAIN shared_cache |-> Aged(shared_cache[k], ttl_meta)]
  /\ alone' = [r \in Repos |-> [alone[r] EXCEPT !.cache = Aged(@, ttl_meta)]]
  /\ shared_cache' # shared_cache
  /\ UNCHANGED <<procs, outside_pair>>

\* two forks with product at the first upstream commit or at a local commit
\* on it and the mirror at one of the first upstream commits; main's document holds for
\* each what an earlier run left
PairInit ==
  /\ upstream = 1
  /\ refs = [r \in RefNames |-> IF r = "mirror" THEN 1 ELSE None]
  /\ issues = [t \in Titles |-> 0]
  /\ hostMeta = "fork"
  /\ cacheFile = EmptyCache /\ cache = EmptyCache /\ tmpFile = EmptyCache
  /\ ttl_meta \in 0..MaxTTL
  /\ pc = "idle" /\ loc = NoLoc /\ result = NoResult
  /\ log = <<>> /\ start = refs /\ runs = 0 /\ interrupted = NoRun
  /\ settled = FALSE
  /\ ClientAtRest
  /\ SelectAtRest
  /\ PolicyAtRest
  /\ BranchOpsAtRest
  /\ PaginateAtRest
  /\ LoadAtRest
  /\ shared_cache \in [{_repo_cache(Org, r) : r \in Repos} -> CarriedCaches]
  /\ \E ps \in [Repos -> {1, LocalOn(1)}], ms \in [Repos -> 1..MaxSha] :
       procs = [r \in Repos |->
                 [refs |-> [b \in RefNames |->
                             IF b = "mirror" THEN ms[r] ELSE ps[r]],
                  pc |-> "meta", loc |-> PairNoLoc, result |-> PairNoResult]]
  /\ alone = [r \in Repos |-> WithCache(procs[r], shared_cache[_repo_cache(Org, r)])]

PairNext == PairTick \/ \E r \in Repos : PairStep(r)

PairSpec == PairInit /\ [][PairNext]_vars

\* ================================================================= claims
\* process_repo has returned its result / returned it without a Skipped note
Returned == pc = "returned"
Completed == pc = "returned" /\ result.notes = ""

\* the ref updates (PATCH requests) logged so far for a ref
UpdatesOf(ref) ==
  SelectSeq(log, LAMBDA m : m.ref = ref /\ m.op \in {"ff", "force"})

\* step 3 moved product to a different SHA in this run
ProductMoved ==
  \E i \in DOMAIN log :
    /\ log[i].ref = "product" /\ log[i].op \in {"ff", "force"}
    /\ log[i].ok /\ log[i].sha # log[i].prior

\* the downstream target of a product SHA: its first parent, else itself
TargetOf(sha) == IF Parent(sha) # None THEN Parent(sha) ELSE sha

\* C1: whenever process_repo completes without a Skipped note, the product
\* branch's SHA equals the mirror branch's SHA (as merge-upstream left it)
C1_Convergence == Completed => refs["product"] = refs["mirror"]

\* C2: in every completed run in which product's SHA changed, staging and
\* feature both end at the downstream target of product's new SHA
C2_Lag ==
  (Completed /\ ProductMoved) =>
     /\ refs["staging"] = TargetOf(refs["product"])
     /\ refs["feature"] = TargetOf(refs["product"])

\* C3: the promotion of staging and feature is executed in exactly the runs
\* in which step 3 moved product: a completed run that moved product ran the
\* promotion, and no update of staging or feature is requested in a run that
\* did not move product
C3_PromotionIffProductMoved ==
  /\ (Completed /\ ProductMoved) => result.product_changed = "yes"
  /\ (UpdatesOf("staging") # <<>> \/ UpdatesOf("feature") # <<>>) => ProductMoved

\* what a run of process_repo requests and leaves behind when every cache
\* lookup is a miss and no API call fails for a reason of its own: from the
\* refs s at the start of the run and the upstream head u
MissRun(s, u) ==
  LET product0 == IF s["product"] = None THEN u ELSE s["product"]
      staging0 == IF s["staging"] = None THEN product0 ELSE s["staging"]
      snapshot0 == IF s["snapshot"] = None THEN staging0 ELSE s["snapshot"]
      feature0 == IF s["feature"] = None THEN product0 ELSE s["feature"]
      creates ==
        (IF s["product"] = None THEN <<<<"create", "product", u>>>> ELSE <<>>)
        \o (IF s["staging"] = None THEN <<<<"create", "staging", product0>>>> ELSE <<>>)
        \o (IF s["snapshot"] = None THEN <<<<"create", "snapshot", staging0>>>> ELSE <<>>)
        \o (IF s["feature"] = None THEN <<<<"create", "feature", product0>>>> ELSE <<>>)
      status_pm == HostCompare(product0, u)
      enforce ==
        IF status_pm = "identical" THEN <<>>
        ELSE IF status_pm = "behind"
          THEN <<<<"ff", "product", u>>, <<"force", "product", u>>>>
        ELSE <<<<"force", "product", u>>>>
      product1 == IF status_pm = "identical" THEN product0 ELSE u
      changed == product1 # product0
      target == TargetOf(product1)
      promote(ref, cur) ==
        IF ~changed \/ HostCompare(cur, target) = "identical" THEN <<>>
        ELSE IF HostCompare(cur, target) = "behind" THEN <<<<"ff", ref, target>>>>
        ELSE <<<<"force", ref, target>>>>
  IN [completes |-> ~changed \/ (HostCompare(staging0, target) # "behind"
                                 /\ HostCompare(feature0, target) # "behind"),
      refs |-> [r \in RefNames |->
                  IF r = "mirror" THEN u
                  ELSE IF r = "product" THEN product1
                  ELSE IF r = "snapshot" THEN snapshot0
                  ELSE IF ~changed THEN (IF r = "staging" THEN staging0 ELSE feature0)
                  ELSE target],
      requests |-> creates \o enforce \o promote("staging", staging0)
                     \o promote("feature", feature0)]

\* the creations and updates this run has requested, in order
Requests == [i \in DOMAIN log |-> <<log[i].op, log[i].ref, log[i].sha>>]

\* the presence audit met no API failure
AuditClean == \A r \in Managed : result.branch_presence[r] # "error (500)"

\* C4: a completed run requests the same ref creations and updates, and
\* leaves the same branch SHAs, as a run from the same fork state in which
\* every cache lookup is a miss
C4_CacheAdvisory ==
  (Completed /\ AuditClean) =>
     /\ MissRun(start, upstream).completes
     /\ refs = MissRun(start, upstream).refs
     /\ Requests = MissRun(start, upstream).requests

\* C5: when the compare of product against mirror reports 'behind', the first
\* update requested for product is non-forced, and a forced update of product
\* is requested only right after a rejected non-forced one
C5_FfPreference ==
  loc.status_pm = "behind" =>
    LET u == UpdatesOf("product") IN
    /\ u # <<>> => u[1].op = "ff"
    /\ \A i \in DOMAIN u :
         u[i].op = "force" => (i > 1 /\ u[i-1].op = "ff" /\ ~u[i-1].ok)

\* a run in which 'behind' led to a rejected fast-forward and then the reset
C5_Witness ==
  /\ loc.status_pm = "behind"
  /\ Len(UpdatesOf("product")) = 2
  /\ UpdatesOf("product")[2].op = "force" /\ UpdatesOf("product")[2].ok
  /\ result.product_merge = "reset (ff failed)"

\* the positions of process_repo after step 3
AfterEnforcePcs == {"read_after", "parent", "compare_ps", "update_staging",
                    "compare_fs", "update_feature", "finish", "returned"}

\* C6: when the compare of product against mirror reports 'ahead' or
\* 'diverged', the only update requested for product is one forced update to
\* mirror's SHA, and the outcome records the reset with the compare status
C6_DirectReset ==
  loc.status_pm \in {"ahead", "diverged"} =>
    LET u == UpdatesOf("product") IN
    /\ \A i \in DOMAIN u : u[i].op = "force" /\ u[i].sha = refs["mirror"]
    /\ pc \in AfterEnforcePcs =>
         /\ Len(u) = 1
         /\ result.product_merge = <<"reset", loc.status_pm>>

\* C7: when sync_mirror does not return ok, the run creates and updates no
\* ref, files or updates the 'mirror sync failed' issue, and returns an
\* outcome with the skip note
C7_SyncFailureTerminal ==
  (result.mirror_sync = "error" /\ pc \in {"returned", "crashed"}) =>
     /\ log = <<>> /\ refs = start
     /\ pc = "returned"
     /\ result.notes = "Skipped: mirror sync failed"
     /\ result.issue \in {"created", "updated"}

\* C8: there is never more than one open issue with the same title: a
\* failing run creates the issue only when none is open, else updates it
C8_NoDuplicateIssue == \A t \in Titles : issues[t] <= 1

\* a later failing run found the open issue and updated it
C8_Witness ==
  /\ runs = 2 /\ Returned
  /\ result.issue = "updated"
  /\ issues[TitleSync] = 1

\* C9: no exception leaves process_repo
C9_NoEscape == pc # "crashed"

\* the positions of process_repo inside the bootstrap step
BootstrapPcs == {"ensure_product", "read_product", "ensure_staging",
                 "read_staging", "ensure_snapshot", "ensure_feature"}

\* C10: ensure_branch requests a create only for a ref that does not exist,
\* and the bootstrap step requests no update at all, so a branch that exists
\* keeps its SHA through the bootstrap step
C10_BootstrapCreateOnly ==
  /\ \A i \in DOMAIN log : log[i].op = "create" => log[i].prior = None
  /\ pc \in BootstrapPcs \cup {"presence"} =>
       /\ \A i \in DOMAIN log : log[i].op = "create"
       /\ \A r \in Managed : start[r] # None => refs[r] = start[r]

\* the bootstrap step of a second run found every branch the first run had
\* created and requested nothing
C10_Witness ==
  /\ runs = 2 /\ pc = "presence"
  /\ \A r \in Managed : start[r] # None
  /\ log = <<>>

\* C11: once the snapshot branch exists, no step of any run changes its SHA
C11_SnapshotCreateOnce ==
  [][refs["snapshot"] # None => refs'["snapshot"] = refs["snapshot"]]_vars

\* a later run moved product and promoted staging while the snapshot branch,
\* created by an earlier run, stayed where it was
C11_Witness ==
  /\ runs = 2 /\ Completed /\ ProductMoved
  /\ start["snapshot"] # None
  /\ refs["snapshot"] = start["snapshot"]
  /\ refs["snapshot"] # refs["product"]
  /\ UpdatesOf("staging") # <<>>

\* C12: at the end of every completed run staging and feature are each equal
\* to or an ancestor of the downstream target of product's SHA, never
\* strictly ahead of it
C12_NeverAheadOfTarget ==
  Completed =>
    \A r \in {"staging", "feature"} :
      IsAncestor(refs[r], TargetOf(refs["product"]))

\* C13: when a run that an exception ended after one of its mutating steps
\* is rerun to completion with no change to upstream or the fork in between,
\* product, staging, feature and snapshot end where a single uninterrupted
\* run from the original state would have left them
C13_Resumable ==
  (Completed /\ interrupted # NoRun /\ MissRun(interrupted, upstream).completes) =>
     \A r \in Managed : refs[r] = MissRun(interrupted, upstream).refs[r]

\* C14: a lookup returns the stored value exactly when the time elapsed since
\* the entry was stored is at most the TTL, for every TTL including 0
C14_CacheFreshness ==
  /\ cache.meta.age >= 0 =>
       (get_repo_meta(cache, ttl_meta) = cache.meta.value
          <=> cache.meta.age <= ttl_meta)
  /\ \A r \in RefNames :
       cache.refs[r].age >= 0 =>
         (get_ref_sha(cache, r, ttl_meta) = cache.refs[r].sha
            <=> cache.refs[r].age <= ttl_meta)

\* C15: at every step of save_cache, a crash included, the file at the
\* destination path holds the complete previous document or the complete new
\* one
C15_AtomicSave ==
  [][(pc \in SavePcs) => (cacheFile' = cacheFile \/ cacheFile' = cache)]_vars

\* a save that ended in the middle of the write: the temp file holds a
\* truncated document, the destination still the one an earlier run saved
C15_Witness ==
  /\ pc = "idle" /\ runs = 2
  /\ tmpFile # EmptyCache
  /\ tmpFile = Truncated(tmpFile)
  /\ cacheFile # EmptyCache
  /\ cacheFile # Truncated(cacheFile)

\* the attempt budget of the client being called
Budget == IF client = "GitHubApi" THEN 5 ELSE 3

C17_ExhaustedCarriesStatus ==
  cpc = "raised" =>
    /\ resp.status # 0 => (error.status = resp.status /\ error.message = "response")
    /\ error.status = 0 => resp.status = 0

\* C18: the sleep that follows a 403 or 429 response is at least 1 second and
\* at most 60 seconds, whatever Retry-After and the reset time say
C18_WaitClamped ==
  (resp.status \in RateLimitStatuses /\ wait # 0) => (wait >= 1 /\ wait <= 60)

\* C19: a 4xx answer other than 403 and 429 ends the call at once: no sleep
\* follows it, no further attempt is made, and the error raised carries its
\* status; when it is the first answer, exactly one attempt was made
C19_NonRetryableFailsAtOnce ==
  resp.status \in OtherClientErrors =>
    /\ cpc = "raised" /\ ~ENABLED RequestNext
    /\ wait = 0 /\ slept = calls - 1
    /\ error = [status |-> resp.status, message |-> "response"]
    /\ seen = {"4xx"} => (calls = 1 /\ slept = 0)

\* the first answer was a 404
C19_Witness ==
  /\ resp.status = 404 /\ seen = {"4xx"}
  /\ cpc = "raised" /\ calls = 1 /\ error.status = 404

C22_IssuesDisabledSkips ==
  (loc.issue_status = 410 /\ pc \in {"returned", "crashed"}) =>
     /\ pc = "returned"
     /\ result.issue = "skipped"
     /\ result.notes # ""

\* a failed bootstrap on a fork with issues disabled
C22_Witness ==
  /\ loc.issue_status = 410 /\ pc = "returned"
  /\ result.branch_bootstrap = "error"
  /\ result.issue = "skipped"
  /\ issues[TitleBootstrap] = 0

\* the successful branch creations of the run, in the order they were made
Creates == SelectSeq(log, LAMBDA m : m.op = "create" /\ m.ok)

\* the run started from a fork with none of the managed branches
FreshFork == \A r \in Managed : start[r] = None

\* the order in which the bootstrap step creates the managed branches
BootstrapOrder == <<"product", "staging", "snapshot", "feature">>

\* C25: starting from a fork with none of the managed branches, bootstrap
\* creates product at mirror's SHA, then staging at product's SHA, then
\* snapshot at staging's SHA, then feature at that same product SHA, and no
\* create of staging or feature is issued before product exists
C25_BootstrapSources ==
  FreshFork =>
    /\ Len(Creates) <= 4
    /\ \A i \in DOMAIN Creates : Creates[i].ref = BootstrapOrder[i]
    /\ Len(Creates) >= 1 => Creates[1].sha = refs["mirror"]
    /\ Len(Creates) >= 2 => Creates[2].sha = Creates[1].sha
    /\ Len(Creates) >= 3 => Creates[3].sha = Creates[2].sha
    /\ Len(Creates) >= 4 => Creates[4].sha = Creates[1].sha
    /\ \A i \in DOMAIN log :
         (log[i].op = "create" /\ log[i].ref \in {"staging", "feature"}) =>
           \E j \in 1..(i - 1) :
             log[j].op = "create" /\ log[j].ref = "product" /\ log[j].ok

\* C26: when staging or feature is 'behind' the downstream target and the
\* host rejects the non-forced update, process_repo falls back to a forced
\* update of that branch to the downstream target
C26_PromotionFallback ==
  \A i \in DOMAIN log :
    (log[i].op = "ff" /\ ~log[i].ok /\ log[i].ref \in {"staging", "feature"}) =>
      /\ pc = "crashed" => i < Len(log)
      /\ i < Len(log) =>
           /\ log[i + 1].op = "force"
           /\ log[i + 1].ref = log[i].ref
           /\ log[i + 1].sha = loc.downstream_target

\* the forced fallback of step 3 has been requested: the index in log of
\* the rejected non-forced update of product it follows
Fallbacks ==
  {i \in 1..(Len(log) - 1) :
     /\ log[i].ref = "product" /\ log[i].op = "ff" /\ ~log[i].ok
     /\ log[i + 1].ref = "product" /\ log[i + 1].op = "force"}

PromotionPcs ==
  {"compare_ps", "update_staging", "compare_fs", "update_feature", "finish"}

Candidates ==
  SelectSeq(<<repo_details.parent_default, repo_details.default_branch, "main", "master">>,
            LAMBDA n : n # "")

\* C29: _select_mirror_branch returns the first candidate, in the order
\* parent's default branch, fork's default branch, 'main', 'master', that
\* exists as a ref in the fork: every earlier candidate is absent
C29_FirstExistingCandidate ==
  spc = "selected" =>
    \E i \in DOMAIN Candidates :
      /\ mirror_branch = Candidates[i]
      /\ mirror_branch \in heads
      /\ \A j \in 1..(i - 1) : Candidates[j] \notin heads

\* the parent's default branch is absent from the fork, whose own default
\* branch is selected although 'main' exists too
C29_Witness ==
  /\ spc = "selected"
  /\ repo_details.parent_default \notin heads \cup {""}
  /\ mirror_branch = repo_details.default_branch
  /\ mirror_branch # "main" /\ "main" \in heads
  /\ tried = <<repo_details.parent_default, repo_details.default_branch>>

\* C30: when no mirror-branch candidate resolves to a ref in the fork, an
\* issue is created or updated in the fork, no merge-upstream call and no
\* branch mutation is made, and the outcome carries a note
C30_MissingMirrorIssue ==
  (spc = "handled" /\ sel_status = 404) =>
    /\ result.issue \in {"created", "updated"} \/ \E t \in Titles : issues[t] > 0
    /\ pc = "returned" /\ result.mirror_sync = ""
    /\ log = <<>> /\ refs = start
    /\ result.notes # ""

\* the policy was accepted: load_branch_policy returned a BranchPolicy
Loaded == lpc = "loaded"

\* C23: load_branch_policy rejects every policy in which two branch entries
\* resolve to the same full ref, whether or not both are in createOrder,
\* and every policy whose createOrder names a key that branches lacks
C23_PolicyValidation ==
  Loaded =>
    /\ \A i, j \in DOMAIN policy.branches :
         i # j => FullRef(secrets[policy.branches[i]]) # FullRef(secrets[policy.branches[j]])
    /\ \A k \in DOMAIN policy.createOrder :
         \E i \in DOMAIN policy.branches : policy.branches[i] = policy.createOrder[k]

\* the full refs of the policy branches whose update flag is false
CreateOnce ==
  {bpolicy[i].full_name : i \in {j \in DOMAIN bpolicy : ~bpolicy[j].update}}

\* C24: in branch_ops.main, whatever the job type, a policy branch whose
\* update flag is false is never passed to update_branch
C24_CreateOnceNeverUpdated ==
  \A i \in DOMAIN updated : updated[i].branch \notin CreateOnce

\* the first page that is empty or whose response has no 'next' relation
LastPage ==
  CHOOSE n \in 1..(Len(pages) + 1) :
    /\ n > Len(pages) \/ "next" \notin pages[n].headers.rels
    /\ \A k \in 1..(n - 1) : "next" \in pages[k].headers.rels

\* the items of pages 1..n, page by page
RECURSIVE ItemsUpTo(_)
ItemsUpTo(n) == IF n = 0 THEN <<>> ELSE ItemsUpTo(n - 1) \o DataOf(n)

\* what paginate has requested and yielded so far: pages 1, 2, ... of size
\* 100, none past LastPage, and the items of the fetched pages once each in
\* page order
PaginationInOrder ==
  /\ Len(requests) <= LastPage
  /\ \A i \in DOMAIN requests : requests[i] = [page |-> i, per_page |-> 100]
  /\ ppc = "done" =>
       /\ Len(requests) = LastPage
       /\ yielded = ItemsUpTo(LastPage)
  /\ \E n \in 0..Len(requests) :
       \E k \in 0..Len(DataOf(n + 1)) :
         yielded = ItemsUpTo(n) \o SubSeq(DataOf(n + 1), 1, k)

\* C21: for a host that serves finitely many non-empty pages, paginate
\* terminates; it asks for pages of size 100, stops after the first page
\* that is empty or has no 'next' link relation, and yields every item of
\* every fetched page exactly once in page order
C21_PaginationTerminates ==
  []PaginationInOrder /\ <>(ppc \in {"done", "raised"})

\* three pages fetched, the last of them announcing no next page although
\* the host has one more
C21_Witness ==
  /\ ppc = "done"
  /\ Len(pages) = 3 /\ LastPage = 2
  /\ Len(requests) = 2
  /\ Len(yielded) = pages[1].size + pages[2].size
  /\ pages[1].size = 2

\* C31: for a repository whose metadata says archived, disabled, not a fork
\* or without a parent, process_repo returns a skipped outcome with a note
\* and makes no mutating call: no merge-upstream, no ref create or update,
\* no issue
C31_GateSkips ==
  (hostMeta # "fork" /\ pc \notin {"idle", "meta"}) =>
    /\ pc \in SavePcs
    /\ result.notes # ""
    /\ result.mirror_sync = "" /\ result.issue = "none"
    /\ log = <<>> /\ refs = start
    /\ \A t \in Titles : issues[t] = 0

\* a second run on an archived repository, gated on the cached metadata
C31_Witness ==
  /\ hostMeta = "archived" /\ pc = "returned" /\ runs = 2
  /\ result.notes = "Skipped: archived or disabled"
  /\ cacheFile.meta.value = "archived" /\ cache = cacheFile

\* C32: when an API call of the bootstrap step fails, process_repo files or
\* updates the 'branch bootstrap failed' issue, records the error in the
\* outcome it returns, and issues no update of product, staging or feature
C32_BootstrapFailureTerminal ==
  (result.branch_bootstrap = "error" /\ pc \in {"returned", "crashed"}) =>
     /\ \A r \in {"product", "staging", "feature"} : UpdatesOf(r) = <<>>
     /\ pc = "returned"
     /\ result.notes # ""
     /\ result.issue \in {"created", "updated"}
     /\ issues[TitleBootstrap] = 1

\* C33: when the compare of product against mirror reports 'identical',
\* process_repo requests no update of product, reports it as up to date,
\* and updates neither staging nor feature in that run
C33_IdenticalNoAction ==
  (loc.status_pm = "identical" /\ pc # "idle") =>
     /\ result.product_merge = "up_to_date"
     /\ \A r \in {"product", "staging", "feature"} : UpdatesOf(r) = <<>>

\* the audit has run
Audited == pc = "compare_pm"

\* C34: the presence audit records a branch whose lookup meets a 404 as
\* 'missing' and any other API error as an error label, goes on to product
\* enforcement in both cases, and creates or updates no ref
C34_AuditNeverFails ==
  /\ pc \in {"presence", "compare_pm"}
  /\ log = <<>> /\ refs = start
  /\ Audited => \A r \in Managed :
       /\ result.branch_presence[r] \in {"present", "missing", "error (500)"}
       /\ result.branch_presence[r] = "missing" => refs[r] = None
       /\ (refs[r] = None /\ result.branch_presence[r] # "missing") =>
            \/ result.branch_presence[r] = "error (500)"
            \/ get_ref_sha(cache, r, ttl_meta) # None

\* an audit that met a 404 for one branch and another error for a second
C34_Witness ==
  /\ Audited
  /\ result.branch_presence["staging"] = "missing"
  /\ result.branch_presence["feature"] = "error (500)"
  /\ result.branch_presence["product"] = "present"

\* C35: a forced update of product is requested only if the compare of
\* product against mirror reported 'ahead' or 'diverged' or a non-forced
\* update was rejected in this run; for any other compare result, a missing
\* or unrecognised status included, product is not force-moved
C35_ForceOnlyWhenProven ==
  LET u == UpdatesOf("product") IN
  \A i \in DOMAIN u :
    u[i].op = "force" =>
      \/ loc.status_pm \in {"ahead", "diverged"}
      \/ i > 1 /\ u[i - 1].op = "ff" /\ ~u[i - 1].ok

\* C36: when process_repo completes, every ref entry the cache holds for
\* product, staging, feature and mirror carries the SHA the ref has on the
\* host at the end of the run
C36_CacheCoherent ==
  Completed =>
    \A r \in {"product", "staging", "feature", "mirror"} :
      cache.refs[r].age >= 0 => cache.refs[r].sha = refs[r]

\* C39: a run that starts after a run that completed, with upstream and every
\* branch as that run left them, creates no ref and updates no ref, whatever
\* the cache carried over holds
C39_FixedPoint ==
  (settled /\ pc # "idle") =>
    /\ \A i \in DOMAIN log : ~log[i].ok
    /\ refs = start

\* C38: after a polling or sync job of branch_ops.main, for either order of
\* the policy's createOrder, every branch with update set points at the SHA
\* the GIT_BRANCH_MAIN branch has at the end of the job when it tracks main,
\* and at the upstream SHA when it tracks upstream
C38_UpdatedToTracked ==
  (bpc = "done" /\ job_type \in {"polling", "sync"}) =>
    \A i \in DOMAIN bpolicy :
      bpolicy[i].update =>
        bheads[bpolicy[i].full_name] =
          IF bpolicy[i].track = "main" THEN bheads[MainRef] ELSE upstream_sha

\* C40: load_cache never raises, and for a missing file, an unreadable or
\* non-JSON file, a file over the size limit, a document that is not an
\* object or one whose version is not the current one, it returns the empty
\* cache, which holds no entry
C40_LoadNeverRaises ==
  /\ raised = ""
  /\ (/\ ldpc = "returned"
      /\ \/ disk.path = "" \/ ~disk.exists \/ ~disk.readable
         \/ disk.bytes # "json" \/ disk.size > MAX_CACHE_BYTES
         \/ disk.doc.kind # "object"
         \/ disk.doc.version # <<"int", CACHE_VERSION>>)
     => document = EmptyDocument

====
